---- MODULE Spec2Model ----
(***************************************************************************)
(* Suffix table of cpchenpi/rust_algo (src/suffix_table): construction by  *)
(* induced sorting (sais), the LCP builder and the query layer.            *)
(*                                                                         *)
(* Positions and symbols are the program's 0-based u32 values; TLA+        *)
(* sequences are 1-based, so the element at program index i is s[i + 1].   *)
(***************************************************************************)
EXTENDS Integers, Sequences, FiniteSets, TLC

\* ---------------------------------------------------------------- bounds
\* Longest text drawn exhaustively over Alphabet.
MaxLen == 9
\* Longest text drawn exhaustively over WideAlphabet.
MaxWideLen == 6
\* Longest query drawn exhaustively over QueryAlphabet.
MaxQLen == 2
\* Longest text / table handed to from_parts.
MaxPartsLen == 2

\* Runs of SuffixTable::new on one text that are compared with each other.
MaxRuns == 2
\* Longest text the concurrent readers are run on, and their longest query.
MaxReaderLen == 4
MaxReaderQLen == 1
\* Largest n handed to factorize, and largest n handed to euler_vec.
MaxNumber == 40
MaxSieve == 7

\* u32::MAX, the "empty" marker of the name buffer. TLC's integers are 32-bit
\* signed, so the marker is its largest integer, 2^31 - 1, instead of
\* 2^32 - 1; the code only compares the marker for equality with names.
U32Max == 2147483647

\* Bytes: 'a' = 97, 'b' = 98, 'n' = 110, 'x' = 120, 'y' = 121, 'z' = 122.
Alphabet == {97, 110}
WideAlphabet == {97, 98, 110}
QueryAlphabet == {97, 110, 120}
banana == <<98, 97, 110, 97, 110, 97>>
\* "nannanannanannanannn": sais recurses on its 7 names, and again on the 3
\* names of those.
deep == <<110, 97, 110, 110, 97, 110, 97, 110, 110, 97,
          110, 97, 110, 110, 97, 110, 97, 110, 110, 110>>

RECURSIVE SeqsUpTo(_, _)
SeqsUpTo(S, k) ==
    IF k = 0 THEN {<<>>}
    ELSE LET shorter == SeqsUpTo(S, k - 1)
         IN  shorter \cup {Append(s, x) : s \in {t \in shorter : Len(t) = k - 1}, x \in S}

\* "The quick brown fox was very quick.", the text of the example in the
\* documentation of positions, and its query "quick".
fox == <<84, 104, 101, 32, 113, 117, 105, 99, 107, 32, 98, 114, 111, 119, 110, 32,
         102, 111, 120, 32, 119, 97, 115, 32, 118, 101, 114, 121, 32,
         113, 117, 105, 99, 107, 46>>
quick == <<113, 117, 105, 99, 107>>

\* Texts the constructor is run on.
Texts ==
    SeqsUpTo(Alphabet, MaxLen) \cup SeqsUpTo(WideAlphabet, MaxWideLen) \cup {banana, deep, fox}
\* Queries put to a finished table.
ana == <<97, 110, 97>>
nan == <<110, 97, 110>>
na == <<110, 97>>
xyz == <<120, 121, 122>>
Queries == SeqsUpTo(QueryAlphabet, MaxQLen) \cup {ana, nan, na, xyz, quick}
\* Arguments of from_parts.
PartsTables == SeqsUpTo(0 .. MaxPartsLen, MaxPartsLen)

\* ----------------------------------------------------------------- state
VARIABLES
    input,    \* the text handed to the constructor (bytes)
    parts,    \* the table handed to from_parts
    text,     \* the constructor's `text`, then SuffixTable.text
    table,    \* SuffixTable.table once constructed
    st,       \* "init" | "building" | "ready" | "panicked"
    origin,   \* "none" | "new" | "from_parts": the constructor that ran
    sa,       \* the working buffer `sa` of sais_table
    stypes,   \* SuffixTypes.types, shared by all recursion levels
    bins,     \* Bins {alphas, sizes, ptrs}, shared by all recursion levels
    stack,    \* activation records of sais, innermost last
    ret,      \* what the last query call returned to its caller
    prior,    \* the tables of the earlier runs of SuffixTable::new on `input`
    log,      \* the calls of head_insert / tail_insert of the latest pass
    readers,  \* per concurrent reader, the call it has made and its result
    number,   \* number_theory: the n handed to factorize
    sieve,    \* number_theory: the n handed to euler_vec
    minf,     \* number_theory: euler_vec's least prime factors
    pr,       \* number_theory: euler_vec's primes
    pfactor,  \* number_theory: what factorize returned
    ans,      \* number_theory: what gen_all_factors returned
    ntpc      \* number_theory: the next call of the test's body

\* The state of the number_theory crate's functions.
ntvars == <<number, sieve, minf, pr, pfactor, ans, ntpc>>

vars == <<input, parts, text, table, st, origin, sa, stypes, bins, stack, ret,
          prior, log, readers, ntvars>>

NoRet == [op |-> "none", query |-> <<>>, panic |-> FALSE, val |-> <<>>]

\* --------------------------------------------------------- small helpers
Min(a, b) == IF a < b THEN a ELSE b

\* vec![x; k]
Fill(k, x) == [i \in 1 .. k |-> x]

\* A loop of the program has computed the state of one iteration before the
\* next begins: Computed(v), true of every value, stands in the test of a
\* loop whose state is not otherwise read there.
Computed(v) == v = v

\* s[from..] of a Rust slice (0-based from, from <= len)
SliceFrom(s, from) == SubSeq(s, from + 1, Len(s))

\* ---------------------------------------------------------- SuffixType
is_asc(t) == t \in {"Ascending", "Valley"}
is_desc(t) == t = "Descending"
is_valley(t) == t = "Valley"
inherit(t) == IF t = "Valley" THEN "Ascending" ELSE t
\* impl PartialEq for SuffixType
type_equal(t, u) == (is_asc(t) /\ is_asc(u)) \/ (is_desc(t) /\ is_desc(u))

\* Mutant: no promotion of the position after a Descending one to Valley.
ComputeStep_NoValley(ty, T, i) ==
    LET c == T[i + 1]
        lastc == T[i + 2]
        t == IF c < lastc THEN "Ascending"
             ELSE IF c > lastc THEN "Descending"
             ELSE inherit(ty[i + 2])
    IN  [ty EXCEPT ![i + 1] = t]

\* Mutant: equal adjacent symbols are typed Ascending instead of inheriting.
ComputeStep_TieAscending(ty, T, i) ==
    LET c == T[i + 1]
        lastc == T[i + 2]
        t == IF c <= lastc THEN "Ascending" ELSE "Descending"
        ty1 == [ty EXCEPT ![i + 1] = t]
    IN  IF is_desc(ty1[i + 1]) /\ is_asc(ty1[i + 2])
        THEN [ty1 EXCEPT ![i + 2] = "Valley"]
        ELSE ty1

\* One iteration of the backward loop of SuffixTypes::compute, for position i
\* (0-based), lasti = i + 1.
ComputeStep(ty, T, i) ==
    LET c == T[i + 1]
        lastc == T[i + 2]
        t == IF c < lastc THEN "Ascending"
             ELSE IF c > lastc THEN "Descending"
             ELSE inherit(ty[i + 2])
        ty1 == [ty EXCEPT ![i + 1] = t]
    IN  IF is_desc(ty1[i + 1]) /\ is_asc(ty1[i + 2])
        THEN [ty1 EXCEPT ![i + 2] = "Valley"]
        ELSE ty1

\* The loop `for i in (0..text.len() - 1).rev()`.
RECURSIVE ComputeLoop(_, _, _)
ComputeLoop(ty, T, i) ==
    IF i < 0 \/ ~Computed(ty) THEN ty
    ELSE ComputeLoop(ComputeStep(ty, T, i), T, i - 1)

\* SuffixTypes::compute(text): T is the text of the level (bytes or names).
compute(ty, T) ==
    IF Len(T) = 0 THEN ty
    ELSE ComputeLoop([ty EXCEPT ![Len(T)] = "Descending"], T, Len(T) - 2)

\* ------------------------------------------------------------------ Bins
\* Bins::new
BinsNew == [alphas |-> <<>>, sizes |-> <<>>, ptrs |-> <<>>]

\* Bins::inc_size
inc_size(sizes, c) ==
    LET grown == IF c >= Len(sizes)
                 THEN sizes \o Fill(1 + c - Len(sizes), 0)
                 ELSE sizes
    IN  [grown EXCEPT ![c + 1] = @ + 1]

\* Bins::size
size(b, c) == b.sizes[c + 1]

\* The body of the counting loop of find_sizes, for the symbol c.
CountAt(b, c) ==
    LET sz == inc_size(b.sizes, c)
        al == IF sz[c + 1] = 1 THEN Append(b.alphas, c) ELSE b.alphas
    IN  [b EXCEPT !.sizes = sz, !.alphas = al]

\* The counting loop of find_sizes over chars[k..].
RECURSIVE CountLoop(_, _, _)
CountLoop(b, chars, k) ==
    IF k > Len(chars) \/ ~Computed(b) THEN b
    ELSE CountLoop(CountAt(b, chars[k]), chars, k + 1)

\* Insertion of x into an ascending sequence, after the elements <= x.
InsertSorted(s, x) ==
    LET k == Cardinality({j \in 1 .. Len(s) : s[j] <= x})
    IN  SubSeq(s, 1, k) \o <<x>> \o SubSeq(s, k + 1, Len(s))

RECURSIVE SortLoop(_, _)
SortLoop(acc, s) ==
    IF s = <<>> \/ ~Computed(acc) THEN acc
    ELSE SortLoop(InsertSorted(acc, Head(s)), Tail(s))

\* self.alphas.sort()
sort(s) == SortLoop(<<>>, s)

\* Bins::find_sizes. Only called on texts of length >= 2, so alphas is not
\* empty when its last element is read.
find_sizes(b, chars) ==
    LET cleared == [b EXCEPT !.alphas = <<>>, !.sizes = Fill(Len(b.sizes), 0)]
        counted == CountLoop(cleared, chars, 1)
        sorted == sort(counted.alphas)
        ptrs_len == sorted[Len(sorted)] + 1
    IN  [alphas |-> sorted, sizes |-> counted.sizes, ptrs |-> Fill(ptrs_len, 0)]

RECURSIVE HeadLoop(_, _, _)
HeadLoop(b, k, sum) ==
    IF k > Len(b.alphas) THEN b
    ELSE LET c == b.alphas[k]
         IN  HeadLoop([b EXCEPT !.ptrs[c + 1] = sum], k + 1, sum + size(b, c))

\* Mutant: the running sum of find_head_pointers starts at 1.
find_head_pointers_shifted(b) == HeadLoop(b, 1, 1)

\* Bins::find_head_pointers
find_head_pointers(b) == HeadLoop(b, 1, 0)

RECURSIVE TailLoop(_, _, _)
TailLoop(b, k, sum) ==
    IF k > Len(b.alphas) THEN b
    ELSE LET c == b.alphas[k]
             sum1 == sum + size(b, c)
         IN  TailLoop([b EXCEPT !.ptrs[c + 1] = sum1 - 1], k + 1, sum1)

\* Mutant: the tail pointer of a bucket set to the running sum instead of
\* the sum less 1 (one past the end of the bucket).
RECURSIVE TailLoop_PastEnd(_, _, _)
TailLoop_PastEnd(b, k, sum) ==
    IF k > Len(b.alphas) THEN b
    ELSE LET c == b.alphas[k]
             sum1 == sum + size(b, c)
         IN  TailLoop_PastEnd([b EXCEPT !.ptrs[c + 1] = sum1], k + 1, sum1)

find_tail_pointers_past_end(b) == TailLoop_PastEnd(b, 1, 0)

\* Bins::find_tail_pointers
find_tail_pointers(b) == TailLoop(b, 1, 0)

\* A pass over the buffer works on w = [sa, ptrs, ok]: sa is the level's
\* slice sa[0..n) (the buffer beyond it is out of the slice's reach), ptrs the
\* bucket pointers, ok = FALSE once an index was out of bounds (a panic).
Fail(w) == [w EXCEPT !.ok = FALSE]

\* Mutant: head_insert that forgets `*ptr += 1`.
head_insert_stuck(w, n, i, c) ==
    IF ~w.ok THEN w
    ELSE IF c >= Len(w.ptrs) THEN Fail(w)
    ELSE LET ptr == w.ptrs[c + 1]
         IN  IF ptr >= n THEN Fail(w)
             ELSE [w EXCEPT !.sa[ptr + 1] = i]

\* Bins::head_insert(sa, i, c) on the slice of length n
head_insert(w, n, i, c) ==
    IF ~w.ok THEN w
    ELSE IF c >= Len(w.ptrs) THEN Fail(w)
    ELSE LET ptr == w.ptrs[c + 1]
         IN  IF ptr >= n THEN Fail(w)
             ELSE [w EXCEPT !.sa[ptr + 1] = i, !.ptrs[c + 1] = ptr + 1]

\* Mutant: tail_insert whose decrement wraps around at 0 instead of staying.
tail_insert_wrapping(w, n, i, c) ==
    IF ~w.ok THEN w
    ELSE IF c >= Len(w.ptrs) THEN Fail(w)
    ELSE LET ptr == w.ptrs[c + 1]
         IN  IF ptr >= n THEN Fail(w)
             ELSE [w EXCEPT !.sa[ptr + 1] = i,
                            !.ptrs[c + 1] = IF ptr > 0 THEN ptr - 1 ELSE U32Max]

\* Bins::tail_insert(sa, i, c) on the slice of length n
tail_insert(w, n, i, c) ==
    IF ~w.ok THEN w
    ELSE IF c >= Len(w.ptrs) THEN Fail(w)
    ELSE LET ptr == w.ptrs[c + 1]
         IN  IF ptr >= n THEN Fail(w)
             ELSE [w EXCEPT !.sa[ptr + 1] = i,
                            !.ptrs[c + 1] = IF ptr > 0 THEN ptr - 1 ELSE ptr]

\* The entry the log of a pass keeps of one call of head_insert / tail_insert
\* that took w to w1: the arguments i and c, the bucket pointer before and
\* after the call, the content after the call of the cell the pointer named
\* before it (-1 where the index is out of bounds), and whether the call
\* returned (ok) or panicked.
Entry(kind, w, w1, i, c) ==
    LET ptr == IF c < Len(w.ptrs) THEN w.ptrs[c + 1] ELSE -1
    IN  [kind |-> kind, pos |-> i, c |-> c,
         ptr |-> ptr,
         ptr1 |-> IF c < Len(w1.ptrs) THEN w1.ptrs[c + 1] ELSE -1,
         cell |-> IF ptr >= 0 /\ ptr < Len(w1.sa) THEN w1.sa[ptr + 1] ELSE -1,
         ok |-> w1.ok]

\* A call of an insert within a pass, entered in the pass's log.
Traced(kind, w, w1, i, c) ==
    IF ~w.ok THEN w1 ELSE [w1 EXCEPT !.log = Append(w.log, Entry(kind, w, w1, i, c))]

HeadInsert(w, n, i, c) == Traced("head", w, head_insert(w, n, i, c), i, c)
TailInsert(w, n, i, c) == Traced("tail", w, tail_insert(w, n, i, c), i, c)

\* ------------------------------------------------------------------ Text
\* Text::prev(i) is defined for 1 <= i <= len: (i - 1, text[i - 1]).
prev_ok(T, i) == i >= 1 /\ i <= Len(T)
\* Text::char_at(i)
char_at(T, i) == T[i + 1]

\* The loop of wstring_equal over the zipped tails, k-th pair.
RECURSIVE WstrLoop(_, _, _, _, _)
WstrLoop(T, ty, w1, w2, k) ==
    LET i1 == w1 + k
        i2 == w2 + k
    IN  IF i1 >= Len(T) \/ i2 >= Len(T) THEN FALSE
        ELSE IF T[i1 + 1] # T[i2 + 1] \/ ~type_equal(ty[i1 + 1], ty[i2 + 1]) THEN FALSE
        ELSE IF i1 > w1 /\ (is_valley(ty[i1 + 1]) \/ is_valley(ty[i2 + 1])) THEN TRUE
        ELSE WstrLoop(T, ty, w1, w2, k + 1)

\* Mutant: the test for the end of the wstring without `i1 > w1`, so that two
\* wstrings are equal as soon as their first symbols and types are.
wstring_equal_first(T, ty, w1, w2) ==
    /\ w1 < Len(T)
    /\ w2 < Len(T)
    /\ T[w1 + 1] = T[w2 + 1]
    /\ type_equal(ty[w1 + 1], ty[w2 + 1])

\* Utf8::wstring_equal and LexNames::wstring_equal (the same body)
wstring_equal(T, ty, w1, w2) == WstrLoop(T, ty, w1, w2, 0)

\* ------------------------------------------------------- passes of sais
\* "Insert the valley suffixes": text positions i..n-1 in text order.
RECURSIVE InsertValleys(_, _, _, _, _)
InsertValleys(w, n, ty, T, i) ==
    IF i >= n \/ ~w.ok THEN w
    ELSE InsertValleys(IF is_valley(ty[i + 1]) THEN TailInsert(w, n, i, T[i + 1]) ELSE w,
                       n, ty, T, i + 1)

\* Mutant: the induction without `if sufi > 0`, so that text.prev(0) is
\* called for the empty cells of sa.
InduceAt_NoGuard(w, n, ty, T, i, desc) ==
    LET sufi == w.sa[i + 1]
    IN  IF ~prev_ok(T, sufi) THEN Fail(w)
        ELSE LET lasti == sufi - 1
                 lastc == T[sufi]
             IN  IF desc
                 THEN IF is_desc(ty[lasti + 1])
                      THEN HeadInsert(w, n, lasti, lastc) ELSE w
                 ELSE IF is_asc(ty[lasti + 1])
                      THEN TailInsert(w, n, lasti, lastc) ELSE w

\* The body shared by both induction scans, for the entry sa[i]: the suffix
\* before sufi is inserted when its type is the one the scan induces.
InduceAt(w, n, ty, T, i, desc) ==
    LET sufi == w.sa[i + 1]
    IN  IF sufi > 0
        THEN IF ~prev_ok(T, sufi) THEN Fail(w)
             ELSE LET lasti == sufi - 1
                      lastc == T[sufi]
                  IN  IF desc
                      THEN IF is_desc(ty[lasti + 1])
                           THEN HeadInsert(w, n, lasti, lastc) ELSE w
                      ELSE IF is_asc(ty[lasti + 1])
                           THEN TailInsert(w, n, lasti, lastc) ELSE w
        ELSE w

RECURSIVE DescLoop(_, _, _, _, _)
DescLoop(w, n, ty, T, i) ==
    IF i >= n \/ ~w.ok THEN w
    ELSE DescLoop(InduceAt(w, n, ty, T, i, TRUE), n, ty, T, i + 1)

\* Mutant: the forward scan without the insertion of the last position.
InduceDesc_NoLast(w, n, ty, T) == DescLoop(w, n, ty, T, 0)

\* "Insert the descending suffixes": the last position first, then a forward
\* scan of sa.
InduceDesc(w, n, ty, T) ==
    LET lasti == n - 1
        lastc == T[n]
        w0 == IF is_desc(ty[lasti + 1]) THEN HeadInsert(w, n, lasti, lastc) ELSE w
    IN  DescLoop(w0, n, ty, T, 0)

RECURSIVE AscLoop(_, _, _, _, _)
AscLoop(w, n, ty, T, i) ==
    IF i < 0 \/ ~w.ok THEN w
    ELSE AscLoop(InduceAt(w, n, ty, T, i, FALSE), n, ty, T, i - 1)

\* Mutant: the ascending suffixes induced by a forward scan of sa.
RECURSIVE AscLoop_Forward(_, _, _, _, _)
AscLoop_Forward(w, n, ty, T, i) ==
    IF i >= n \/ ~w.ok THEN w
    ELSE AscLoop_Forward(InduceAt(w, n, ty, T, i, FALSE), n, ty, T, i + 1)

InduceAsc_Forward(w, n, ty, T) == AscLoop_Forward(w, n, ty, T, 0)

\* "Insert the ascending suffixes": a backward scan of sa.
InduceAsc(w, n, ty, T) == AscLoop(w, n, ty, T, n - 1)

\* "Find and move all wstrings to the beginning of sa". c = [sa, num, ok].
CollectAt(c, ty, i) ==
    LET sufi == c.sa[i + 1]
    IN  IF sufi >= Len(ty) THEN [c EXCEPT !.ok = FALSE]
        ELSE IF is_valley(ty[sufi + 1])
             THEN [c EXCEPT !.sa[c.num + 1] = sufi, !.num = c.num + 1]
             ELSE c

RECURSIVE CollectLoop(_, _, _, _)
CollectLoop(c, n, ty, i) ==
    IF i >= n \/ ~c.ok THEN c
    ELSE CollectLoop(CollectAt(c, ty, i), n, ty, i + 1)

\* Mutant: without `if num_wstrs == 0 { num_wstrs = 1; }`.
Collect_NoForce(s, n, ty) ==
    CollectLoop([sa |-> s, num |-> 0, ok |-> TRUE], n, ty, 0)

\* Lines 369-381: the collected slice and num_wstrs (forced to 1 when no
\* valley was found).
Collect(s, n, ty) ==
    LET c == CollectLoop([sa |-> s, num |-> 0, ok |-> TRUE], n, ty, 0)
    IN  [c EXCEPT !.num = IF c.num = 0 THEN 1 ELSE c.num]

\* The naming loop. m = [sa, name, prev_sufi, ok].
NameAt(m, n, ty, T, num_wstrs, i) ==
    LET cur_sufi == m.sa[i + 1]
    IN  IF m.prev_sufi # 0 /\ (cur_sufi > Len(T) \/ m.prev_sufi > Len(T))
        THEN [m EXCEPT !.ok = FALSE]
        ELSE LET fresh == m.prev_sufi = 0
                            \/ ~wstring_equal(T, ty, cur_sufi, m.prev_sufi)
                 name1 == IF fresh THEN m.name + 1 ELSE m.name
                 prev1 == IF fresh THEN cur_sufi ELSE m.prev_sufi
                 slot == num_wstrs + (cur_sufi \div 2)
             IN  IF slot >= n \/ name1 = 0 THEN [m EXCEPT !.ok = FALSE]
                 ELSE [m EXCEPT !.sa[slot + 1] = name1 - 1,
                                !.name = name1,
                                !.prev_sufi = prev1]

RECURSIVE NameLoop(_, _, _, _, _, _)
NameLoop(m, n, ty, T, num_wstrs, i) ==
    IF i >= num_wstrs \/ ~m.ok THEN m
    ELSE NameLoop(NameAt(m, n, ty, T, num_wstrs, i), n, ty, T, num_wstrs, i + 1)

\* Lines 383-400: fill the name buffer with u32::MAX, then name the wstrings.
NameWstrings(s, n, ty, T, num_wstrs) ==
    LET blank == [i \in 1 .. n |-> IF i > num_wstrs THEN U32Max ELSE s[i]]
    IN  NameLoop([sa |-> blank, name |-> 0, prev_sufi |-> 0, ok |-> TRUE],
                 n, ty, T, num_wstrs, 0)

\* Mutant: the compaction without `j -= 1`.
CompactAt_NoDecrement(k, i) ==
    IF k.sa[i + 1] # U32Max
    THEN IF k.j = 0 THEN [k EXCEPT !.sa[1] = k.sa[i + 1], !.ok = FALSE]
         ELSE [k EXCEPT !.sa[k.j + 1] = k.sa[i + 1]]
    ELSE k

\* Lines 404-410: move the names to the end of sa. k = [sa, j, ok]; j is a
\* u32, so `j -= 1` at j = 0 overflows (a panic of the checked build).
CompactAt(k, i) ==
    IF k.sa[i + 1] # U32Max
    THEN IF k.j = 0 THEN [k EXCEPT !.sa[1] = k.sa[i + 1], !.ok = FALSE]
         ELSE [k EXCEPT !.sa[k.j + 1] = k.sa[i + 1], !.j = k.j - 1]
    ELSE k

RECURSIVE CompactLoop(_, _, _)
CompactLoop(k, num_wstrs, i) ==
    IF i < num_wstrs \/ ~k.ok THEN k
    ELSE CompactLoop(CompactAt(k, i), num_wstrs, i - 1)

Compact(s, n, num_wstrs) ==
    CompactLoop([sa |-> s, j |-> n - 1, ok |-> TRUE], num_wstrs, n - 1)

\* Mutant: sa[i] = reducedi instead of sa[reducedi] = i (the names in text
\* order instead of the text ranks in name order).
DirectAt_Names(d, n, num_wstrs, i) ==
    LET reducedi == d.sa[n - num_wstrs + i + 1]
    IN  IF reducedi >= n THEN [d EXCEPT !.ok = FALSE]
        ELSE [d EXCEPT !.sa[i + 1] = reducedi]

\* Lines 425-428, the branch without recursion: sa[name] = rank.
DirectAt(d, n, num_wstrs, i) ==
    LET reducedi == d.sa[n - num_wstrs + i + 1]
    IN  IF reducedi >= n THEN [d EXCEPT !.ok = FALSE]
        ELSE [d EXCEPT !.sa[reducedi + 1] = i]

RECURSIVE DirectLoop(_, _, _, _)
DirectLoop(d, n, num_wstrs, i) ==
    IF i >= num_wstrs \/ ~d.ok THEN d
    ELSE DirectLoop(DirectAt(d, n, num_wstrs, i), n, num_wstrs, i + 1)

\* Lines 437-443: write the valley positions, in text order, over the names.
\* p = [sa, j, ok].
PositionAt(p, n, ty, i) ==
    IF is_valley(ty[i + 1])
    THEN IF p.j >= n THEN [p EXCEPT !.ok = FALSE]
         ELSE [p EXCEPT !.sa[p.j + 1] = i, !.j = p.j + 1]
    ELSE p

RECURSIVE PositionsLoop(_, _, _, _)
PositionsLoop(p, n, ty, i) ==
    IF i >= n \/ ~p.ok THEN p
    ELSE PositionsLoop(PositionAt(p, n, ty, i), n, ty, i + 1)

\* Lines 450-453: replace each reduced suffix index by its text position.
MapAt(p, n, num_wstrs, i) ==
    LET sufi == p.sa[i + 1]
    IN  IF n - num_wstrs + sufi >= n THEN [p EXCEPT !.ok = FALSE]
        ELSE [p EXCEPT !.sa[i + 1] = p.sa[n - num_wstrs + sufi + 1]]

RECURSIVE MapLoop(_, _, _, _)
MapLoop(p, n, num_wstrs, i) ==
    IF i >= num_wstrs \/ ~p.ok THEN p
    ELSE MapLoop(MapAt(p, n, num_wstrs, i), n, num_wstrs, i + 1)

\* Lines 437-457.
MapBack(s, n, ty, num_wstrs) ==
    LET placed == PositionsLoop([sa |-> s, j |-> n - num_wstrs, ok |-> TRUE], n, ty, 0)
        mapped == MapLoop(placed, n, num_wstrs, 0)
    IN  [mapped EXCEPT !.sa = [i \in 1 .. n |-> IF i > num_wstrs THEN 0 ELSE mapped.sa[i]]]

\* Lines 460-464: seed the buckets with the sorted valleys, last first.
SeedAt(w, n, T, i) ==
    LET sufi == w.sa[i + 1]
    IN  IF sufi >= Len(T) THEN Fail(w)
        ELSE TailInsert([w EXCEPT !.sa[i + 1] = 0], n, sufi, char_at(T, sufi))

RECURSIVE SeedLoop(_, _, _, _)
SeedLoop(w, n, T, i) ==
    IF i < 0 \/ ~w.ok THEN w
    ELSE SeedLoop(SeedAt(w, n, T, i), n, T, i - 1)

\* ------------------------------------------------------ byte strings
\* Ordering of two byte strings as Rust's Ord for slices and Iterator::cmp
\* give it: -1 = Less, 0 = Equal, 1 = Greater.
RECURSIVE cmp(_, _)
cmp(a, b) ==
    IF a = <<>> THEN (IF b = <<>> THEN 0 ELSE -1)
    ELSE IF b = <<>> THEN 1
    ELSE IF Head(a) < Head(b) THEN -1
    ELSE IF Head(a) > Head(b) THEN 1
    ELSE cmp(Tail(a), Tail(b))

\* slice::starts_with
starts_with(s, needle) ==
    Len(needle) <= Len(s) /\ SubSeq(s, 1, Len(needle)) = needle

\* Iterator::take(k) of a slice
take(s, k) == SubSeq(s, 1, Min(k, Len(s)))

\* Mutant: counts every equal pair (filter) instead of the leading run
\* (take_while).
RECURSIVE lcp_len_filter(_, _)
lcp_len_filter(a, b) ==
    IF a = <<>> \/ b = <<>> THEN 0
    ELSE (IF Head(a) = Head(b) THEN 1 ELSE 0) + lcp_len_filter(Tail(a), Tail(b))

\* lcp_len(a, b): the length of the zipped run of equal bytes.
RECURSIVE lcp_len(_, _)
lcp_len(a, b) ==
    IF a = <<>> \/ b = <<>> \/ Head(a) # Head(b) THEN 0
    ELSE 1 + lcp_len(Tail(a), Tail(b))

\* ----------------------------------------------------------- query layer
\* A call returns [panic, val]: the thread panicked (an index past the end),
\* or the value returned.
Returned(v) == [panic |-> FALSE, val |-> v]
Panicked == [panic |-> TRUE, val |-> <<>>]

\* &text[sufi..] is defined for sufi <= text.len().
suffix_ok(txt, sufi) == sufi <= Len(txt)

\* binary_search(xs, pred): the first index whose element satisfies pred, or
\* xs.len(). The closure is handed over as its value on each element of xs,
\* of which the search reads only those it probes: pv[i + 1] = 1 where
\* pred(&xs[i]) holds, 0 where it does not, -1 where it indexes out of
\* bounds. The result -1 stands for that panic.
binary_search(pv) ==
    LET loop[left \in 0 .. Len(pv), right \in 0 .. Len(pv)] ==
            IF left < right
            THEN LET mid == (left + right) \div 2
                 IN  IF pv[mid + 1] < 0 THEN -1
                     ELSE IF pv[mid + 1] = 1 THEN loop[left, mid]
                     ELSE loop[mid + 1, right]
            ELSE left
    IN  loop[0, Len(pv)]

\* The value of a bool closure of positions on the table entry sufi.
Pred(txt, sufi, holds) ==
    IF ~suffix_ok(txt, sufi) THEN -1 ELSE IF holds THEN 1 ELSE 0

\* Mutant: the matches returned in text order (sorted offsets) instead of as
\* the slice of the table.
positions_search_sorted(txt, tbl, query) ==
    LET ge_query == [i \in 1 .. Len(tbl) |->
                        Pred(txt, tbl[i], cmp(query, SliceFrom(txt, tbl[i])) <= 0)]
        start == binary_search(ge_query)
        not_prefixed == [i \in 1 .. Len(tbl) - start |->
                            Pred(txt, tbl[start + i],
                                 ~starts_with(SliceFrom(txt, tbl[start + i]), query))]
        rest == IF start < 0 THEN -1 ELSE binary_search(not_prefixed)
        end == start + rest
    IN  IF start < 0 \/ rest < 0 THEN Panicked
        ELSE IF start > end THEN Returned(<<>>)
        ELSE Returned(sort(SubSeq(tbl, start + 1, end)))

\* SuffixTable::positions(query), after the quick rejections: the two binary
\* searches and the slice between them.
positions_search(txt, tbl, query) ==
    LET ge_query == [i \in 1 .. Len(tbl) |->
                        Pred(txt, tbl[i], cmp(query, SliceFrom(txt, tbl[i])) <= 0)]
        start == binary_search(ge_query)
        not_prefixed == [i \in 1 .. Len(tbl) - start |->
                            Pred(txt, tbl[start + i],
                                 ~starts_with(SliceFrom(txt, tbl[start + i]), query))]
        rest == IF start < 0 THEN -1 ELSE binary_search(not_prefixed)
        end == start + rest
    IN  IF start < 0 \/ rest < 0 THEN Panicked
        ELSE IF start > end THEN Returned(<<>>)
        ELSE Returned(SubSeq(tbl, start + 1, end))

\* Mutant: the first quick rejection without `&& !starts_with(query)`.
positions_reject_prefix(txt, tbl, query) ==
    IF Len(txt) = 0 \/ Len(query) = 0 THEN Returned(<<>>)
    ELSE IF Len(tbl) = 0 \/ ~suffix_ok(txt, tbl[1]) THEN Panicked
    ELSE LET first == SliceFrom(txt, tbl[1])
         IN  IF cmp(query, first) < 0 THEN Returned(<<>>)
             ELSE IF ~suffix_ok(txt, tbl[Len(tbl)]) THEN Panicked
             ELSE IF cmp(query, SliceFrom(txt, tbl[Len(tbl)])) > 0 THEN Returned(<<>>)
             ELSE positions_search(txt, tbl, query)

\* Mutant: no `query.len() == 0` among the quick rejections.
positions_empty_query(txt, tbl, query) ==
    IF Len(txt) = 0 THEN Returned(<<>>)
    ELSE IF Len(tbl) = 0 \/ ~suffix_ok(txt, tbl[1]) THEN Panicked
    ELSE LET first == SliceFrom(txt, tbl[1])
         IN  IF cmp(query, first) < 0 /\ ~starts_with(first, query) THEN Returned(<<>>)
             ELSE IF ~suffix_ok(txt, tbl[Len(tbl)]) THEN Panicked
             ELSE IF cmp(query, SliceFrom(txt, tbl[Len(tbl)])) > 0 THEN Returned(<<>>)
             ELSE positions_search(txt, tbl, query)

\* Mutant: the last quick rejection with `>=` for `>`.
positions_reject_last(txt, tbl, query) ==
    IF Len(txt) = 0 \/ Len(query) = 0 THEN Returned(<<>>)
    ELSE IF Len(tbl) = 0 \/ ~suffix_ok(txt, tbl[1]) THEN Panicked
    ELSE LET first == SliceFrom(txt, tbl[1])
         IN  IF cmp(query, first) < 0 /\ ~starts_with(first, query) THEN Returned(<<>>)
             ELSE IF ~suffix_ok(txt, tbl[Len(tbl)]) THEN Panicked
             ELSE IF cmp(query, SliceFrom(txt, tbl[Len(tbl)])) >= 0 THEN Returned(<<>>)
             ELSE positions_search(txt, tbl, query)

\* SuffixTable::positions(query). The conditions of the `if` are evaluated
\* left to right and stop at the first that holds.
positions(txt, tbl, query) ==
    IF Len(txt) = 0 \/ Len(query) = 0 THEN Returned(<<>>)
    ELSE IF Len(tbl) = 0 \/ ~suffix_ok(txt, tbl[1]) THEN Panicked
    ELSE LET first == SliceFrom(txt, tbl[1])
         IN  IF cmp(query, first) < 0 /\ ~starts_with(first, query) THEN Returned(<<>>)
             ELSE IF ~suffix_ok(txt, tbl[Len(tbl)]) THEN Panicked
             ELSE IF cmp(query, SliceFrom(txt, tbl[Len(tbl)])) > 0 THEN Returned(<<>>)
             ELSE positions_search(txt, tbl, query)

\* Mutant: the closure compares the whole suffix (no take(query.len())).
probe_whole(txt, query, sufi) == cmp(SliceFrom(txt, sufi), query)

\* The closure of any_position: the first query.len() bytes of the suffix
\* against the query.
probe(txt, query, sufi) == cmp(take(SliceFrom(txt, sufi), Len(query)), query)

\* The value of the closure of any_position on the table entry sufi; 2 where
\* it indexes out of bounds.
Probed(txt, query, sufi) ==
    IF ~suffix_ok(txt, sufi) THEN 2 ELSE probe(txt, query, sufi)

\* slice::binary_search_by of the standard library, which any_position calls.
\* Which of several matches it returns depends on the library version: the
\* loop that returns at the first Equal probe ("early_return") and the loop
\* that always halves to one candidate ("branchless"). cv holds the value of
\* the closure on each element, of which the search reads only those it
\* probes. <<i>> = Ok(i), <<>> = Err(_); <<-1>> stands for a panic inside the
\* closure.
binary_search_by(cv, impl) ==
    LET early[left \in 0 .. Len(cv), right \in 0 .. Len(cv)] ==
            IF left < right
            THEN LET mid == left + ((right - left) \div 2)
                 IN  IF cv[mid + 1] = 2 THEN <<-1>>
                     ELSE IF cv[mid + 1] < 0 THEN early[mid + 1, right]
                     ELSE IF cv[mid + 1] > 0 THEN early[left, mid]
                     ELSE <<mid>>
            ELSE <<>>
        halve[base \in 0 .. Len(cv), sz \in 0 .. Len(cv)] ==
            IF sz > 1
            THEN LET half == sz \div 2
                     mid == base + half
                 IN  IF cv[mid + 1] = 2 THEN <<-1>>
                     ELSE halve[IF cv[mid + 1] > 0 THEN base ELSE mid, sz - half]
            ELSE IF cv[base + 1] = 2 THEN <<-1>>
            ELSE IF cv[base + 1] = 0 THEN <<base>>
            ELSE <<>>
    IN  IF impl = "early_return" THEN early[0, Len(cv)]
        ELSE IF Len(cv) = 0 THEN <<>>
        ELSE halve[0, Len(cv)]

\* Mutant: returns the rank found instead of the offset stored at it.
any_position_rank(txt, tbl, query, impl) ==
    IF Len(query) = 0 THEN Returned(<<>>)
    ELSE LET cv == [i \in 1 .. Len(tbl) |-> Probed(txt, query, tbl[i])]
             found == binary_search_by(cv, impl)
         IN  IF found = <<-1>> THEN Panicked
             ELSE IF found = <<>> THEN Returned(<<>>)
             ELSE Returned(<<found[1]>>)

\* SuffixTable::any_position(query): <<p>> = Some(p), <<>> = None.
any_position(txt, tbl, query, impl) ==
    IF Len(query) = 0 THEN Returned(<<>>)
    ELSE LET cv == [i \in 1 .. Len(tbl) |-> Probed(txt, query, tbl[i])]
             found == binary_search_by(cv, impl)
         IN  IF found = <<-1>> THEN Panicked
             ELSE IF found = <<>> THEN Returned(<<>>)
             ELSE Returned(<<tbl[found[1] + 1]>>)

\* SuffixTable::contains(query)
contains(txt, tbl, query, impl) ==
    LET r == any_position(txt, tbl, query, impl)
    IN  IF r.panic THEN Panicked ELSE Returned(r.val # <<>>)

\* lcp_lens_quadratic(text, table)
lcp_lens_quadratic(txt, tbl) ==
    IF \E i \in 1 .. Len(tbl) : Len(tbl) >= 2 /\ ~suffix_ok(txt, tbl[i]) THEN Panicked
    ELSE Returned([i \in 1 .. Len(tbl) |->
                      IF i = 1 THEN 0
                      ELSE lcp_len(SliceFrom(txt, tbl[i - 1]), SliceFrom(txt, tbl[i]))])

\* SuffixTable::lcp_lens: the inverse table is filled first (and not used);
\* inverse[sufstart] is out of bounds for sufstart >= text.len().
lcp_lens(txt, tbl) ==
    IF \E i \in 1 .. Len(tbl) : tbl[i] >= Len(txt) THEN Panicked
    ELSE lcp_lens_quadratic(txt, tbl)

\* SuffixTable::len and is_empty
len(tbl) == Len(tbl)
is_empty(tbl) == len(tbl) = 0

\* --------------------------------------------------------- number_theory
\* euler_vec, the inner loop `for &p in &pr` from the k-th prime on.
RECURSIVE MarkLoop(_, _, _, _, _)
MarkLoop(mf, primes, n, i, k) ==
    IF k > Len(primes) THEN mf
    ELSE LET p == primes[k]
         IN  IF p > mf[i + 1] \/ p > n \div i THEN mf
             ELSE MarkLoop([mf EXCEPT ![i * p + 1] = p], primes, n, i, k + 1)

\* euler_vec, the loop `for i in 2..=n` from i on. e = [minf, pr].
RECURSIVE SieveLoop(_, _, _)
SieveLoop(e, n, i) ==
    IF i > n THEN e
    ELSE LET fresh == e.minf[i + 1] = 0
             mf1 == IF fresh THEN [e.minf EXCEPT ![i + 1] = i] ELSE e.minf
             pr1 == IF fresh THEN Append(e.pr, i) ELSE e.pr
         IN  SieveLoop([minf |-> MarkLoop(mf1, pr1, n, i, 1), pr |-> pr1], n, i + 1)

\* euler_vec(n): (minf, pr)
euler_vec(n) == SieveLoop([minf |-> Fill(n + 1, 0), pr |-> <<>>], n, 2)

\* factorize, `while n % p == 0 { n /= p; cnt += 1; }`
RECURSIVE DivideLoop(_, _, _)
DivideLoop(m, p, cnt) ==
    IF m % p = 0 THEN DivideLoop(m \div p, p, cnt + 1) ELSE [n |-> m, cnt |-> cnt]

\* factorize, the loop `for &p in pr` from the k-th prime on: what is left of
\* n and the pairs pushed.
RECURSIVE FactorLoop(_, _, _, _)
FactorLoop(m, primes, k, acc) ==
    IF k > Len(primes) THEN [n |-> m, ans |-> acc]
    ELSE LET p == primes[k]
         IN  IF p * p > m THEN [n |-> m, ans |-> acc]
             ELSE IF m % p = 0
                  THEN LET d == DivideLoop(m, p, 0)
                       IN  FactorLoop(d.n, primes, k + 1, Append(acc, <<p, d.cnt>>))
                  ELSE FactorLoop(m, primes, k + 1, acc)

\* Mutant: factorize without the trailing `if n != 1 { ans.push((n, 1)) }`.
factorize_no_rest(m, primes) == FactorLoop(m, primes, 1, <<>>).ans

\* factorize(n, pr): the pairs (p, cnt)
factorize(m, primes) ==
    LET f == FactorLoop(m, primes, 1, <<>>)
    IN  IF f.n # 1 THEN Append(f.ans, <<f.n, 1>>) ELSE f.ans

\* gen_all_factors, `for _ in 0..c` with c rounds left: base *= p, then the
\* first k entries times base are pushed.
RECURSIVE PowerLoop(_, _, _, _, _)
PowerLoop(acc, k, p, c, base0) ==
    IF c = 0 THEN acc
    ELSE LET base1 == base0 * p
         IN  PowerLoop(acc \o [i \in 1 .. k |-> acc[i] * base1], k, p, c - 1, base1)

\* gen_all_factors, the loop `for &(p, c) in pfactor` from the j-th pair on.
RECURSIVE PairLoop(_, _, _)
PairLoop(acc, pf, j) ==
    IF j > Len(pf) THEN acc
    ELSE PairLoop(PowerLoop(acc, Len(acc), pf[j][1], pf[j][2], 1), pf, j + 1)

\* gen_all_factors(pfactor)
gen_all_factors(pf) == PairLoop(<<1>>, pf, 1)

\* ------------------------------------------------------ the sais machine
\* An activation of sais: n = text.len() = sa.len(); toff = -1 for the bytes
\* of `text` (Utf8), else the offset in the buffer of the names the level
\* sorts (LexNames(r_text)); pc = the next statement; num_wstrs and name are
\* the locals that live across passes. Every level's sa starts at offset 0 of
\* the buffer: sais passes r_sa[..num_wstrs], the head of its own sa. `saved`
\* is not a local of sais: it keeps what bins, stypes and the buffer were
\* when the activation called sais, to compare with after the call.
NotSaved == [bins |-> BinsNew, stypes |-> <<>>, sa |-> <<>>]
Frame(n, toff) ==
    [n |-> n, toff |-> toff, pc |-> "enter", num_wstrs |-> 0, name |-> 0,
     saved |-> NotSaved]

Top == stack[Len(stack)]
Running == st = "building" /\ stack # <<>>
At(pcs) == Running /\ Top.pc \in pcs

\* The symbols of the level's text.
TextOf(f) == IF f.toff < 0 THEN text ELSE SubSeq(sa, f.toff + 1, f.toff + f.n)
\* The level's slice of the buffer, and the buffer with that slice replaced.
SliceOf(f) == SubSeq(sa, 1, f.n)
WithSlice(f, s) == s \o SubSeq(sa, f.n + 1, Len(sa))

\* The statement after pc within one activation.
NextPc(pc) ==
    CASE pc = "compute1" -> "sizes1"
      [] pc = "sizes1" -> "tail1a"
      [] pc = "tail1a" -> "valleys"
      [] pc = "valleys" -> "head1"
      [] pc = "head1" -> "desc1"
      [] pc = "desc1" -> "tail1b"
      [] pc = "tail1b" -> "asc1"
      [] pc = "asc1" -> "collect"
      [] pc = "collect" -> "name"
      [] pc = "name" -> "compact"
      [] pc = "compact" -> "branch"
      [] pc = "branch" -> "sizes2"
      [] pc = "compute2" -> "sizes2"
      [] pc = "sizes2" -> "tail2a"
      [] pc = "tail2a" -> "mapback"
      [] pc = "mapback" -> "seed"
      [] pc = "seed" -> "head2"
      [] pc = "head2" -> "desc2"
      [] pc = "desc2" -> "tail2b"
      [] pc = "tail2b" -> "asc2"
      [] pc = "asc2" -> "return"

\* The stack with the running activation replaced by f.
SetTop(f) == [stack EXCEPT ![Len(stack)] = f]
Goto(f) == SetTop([f EXCEPT !.pc = NextPc(f.pc)])

\* The outcome of a statement: go on when ok, else the thread has panicked.
Outcome(ok, f) ==
    IF ok THEN /\ stack' = Goto(f)
               /\ st' = st
          ELSE /\ stack' = stack
               /\ st' = "panicked"

\* SuffixTable::new up to the call of sais (lines 27-28, 296-302).
New ==
    /\ st = "init"
    /\ st' = "building"
    /\ origin' = "new"
    /\ text' = input
    /\ sa' = Fill(Len(input), 0)
    /\ stypes' = Fill(Len(input), "Ascending")
    /\ bins' = BinsNew
    /\ stack' = <<Frame(Len(input), -1)>>
    /\ UNCHANGED <<input, parts, table, ret>>
    /\ log' = <<>>
    /\ UNCHANGED <<prior, readers, ntvars>>

\* Mutant: sais without the base case of a text of length 1.
SaisEnter_NoSingle ==
    /\ At({"enter"})
    /\ LET f == Top
       IN  \/ /\ f.n = 0
              /\ stack' = SetTop([f EXCEPT !.pc = "return"])
              /\ sa' = sa
           \/ /\ f.n >= 1
              /\ stack' = SetTop([f EXCEPT !.pc = "compute1"])
              /\ sa' = WithSlice(f, Fill(f.n, 0))
    /\ UNCHANGED <<input, parts, text, table, st, origin, stypes, bins, ret>>
    /\ UNCHANGED <<prior, log, readers, ntvars>>

\* Mutant: the clearing loop runs over the whole buffer instead of the
\* activation's slice.
SaisEnter_ClearAll ==
    /\ At({"enter"})
    /\ LET f == Top
       IN  \/ /\ f.n = 0
              /\ stack' = SetTop([f EXCEPT !.pc = "return"])
              /\ sa' = sa
           \/ /\ f.n = 1
              /\ stack' = SetTop([f EXCEPT !.pc = "return"])
              /\ sa' = [sa EXCEPT ![1] = 0]
           \/ /\ f.n >= 2
              /\ stack' = SetTop([f EXCEPT !.pc = "compute1"])
              /\ sa' = Fill(Len(sa), 0)
    /\ UNCHANGED <<input, parts, text, table, st, origin, stypes, bins, ret>>
    /\ UNCHANGED <<prior, log, readers, ntvars>>

\* sais, lines 313-324: the base cases, else clear sa.
SaisEnter ==
    /\ At({"enter"})
    /\ LET f == Top
       IN  \/ /\ f.n = 0
              /\ stack' = SetTop([f EXCEPT !.pc = "return"])
              /\ sa' = sa
           \/ /\ f.n = 1
              /\ stack' = SetTop([f EXCEPT !.pc = "return"])
              /\ sa' = [sa EXCEPT ![1] = 0]
           \/ /\ f.n >= 2
              /\ stack' = SetTop([f EXCEPT !.pc = "compute1"])
              /\ sa' = WithSlice(f, Fill(f.n, 0))
    /\ UNCHANGED <<input, parts, text, table, st, origin, stypes, bins, ret>>
    /\ UNCHANGED <<prior, log, readers, ntvars>>

\* stypes.compute(text), lines 325 and 423.
Compute ==
    /\ At({"compute1", "compute2"})
    /\ stypes' = compute(stypes, TextOf(Top))
    /\ stack' = Goto(Top)
    /\ UNCHANGED <<input, parts, text, table, st, origin, sa, bins, ret>>
    /\ UNCHANGED <<prior, log, readers, ntvars>>

\* Mutant: the find_sizes before the final induction leaves the alphabet in
\* either order (the order of a hash set's iteration) instead of sorted.
FindSizes_AnyOrder ==
    /\ At({"sizes1", "sizes2"})
    /\ LET b == find_sizes(bins, TextOf(Top))
           k == Len(b.alphas)
       IN  bins' \in {b, IF Top.pc = "sizes2"
                         THEN [b EXCEPT !.alphas = [i \in 1 .. k |-> b.alphas[k + 1 - i]]]
                         ELSE b}
    /\ stack' = Goto(Top)
    /\ UNCHANGED <<input, parts, text, table, st, origin, sa, stypes, ret>>
    /\ UNCHANGED <<prior, log, readers, ntvars>>

\* Mutant: the bins are not re-calibrated before the second round of
\* induction (no find_sizes at line 432).
FindSizes_Once ==
    /\ At({"sizes1", "sizes2"})
    /\ bins' = IF Top.pc = "sizes2" THEN bins ELSE find_sizes(bins, TextOf(Top))
    /\ stack' = Goto(Top)
    /\ UNCHANGED <<input, parts, text, table, st, origin, sa, stypes, ret>>
    /\ UNCHANGED <<prior, log, readers, ntvars>>

\* bins.find_sizes(..), lines 326 and 432.
FindSizes ==
    /\ At({"sizes1", "sizes2"})
    /\ bins' = find_sizes(bins, TextOf(Top))
    /\ stack' = Goto(Top)
    /\ UNCHANGED <<input, parts, text, table, st, origin, sa, stypes, ret>>
    /\ UNCHANGED <<prior, log, readers, ntvars>>

\* bins.find_tail_pointers(), lines 327, 355, 433, 485.
FindTailPointers ==
    /\ At({"tail1a", "tail1b", "tail2a", "tail2b"})
    /\ bins' = find_tail_pointers(bins)
    /\ stack' = Goto(Top)
    /\ UNCHANGED <<input, parts, text, table, st, origin, sa, stypes, ret>>
    /\ UNCHANGED <<prior, log, readers, ntvars>>

\* bins.find_head_pointers(), lines 337 and 467.
FindHeadPointers ==
    /\ At({"head1", "head2"})
    /\ bins' = find_head_pointers(bins)
    /\ stack' = Goto(Top)
    /\ UNCHANGED <<input, parts, text, table, st, origin, sa, stypes, ret>>
    /\ UNCHANGED <<prior, log, readers, ntvars>>

\* A pass that inserts into the buckets: w is its result.
Inserted(w) ==
    /\ sa' = WithSlice(Top, w.sa)
    /\ bins' = [bins EXCEPT !.ptrs = w.ptrs]
    /\ Outcome(w.ok, Top)
    /\ UNCHANGED <<input, parts, text, table, origin, stypes, ret>>
    /\ log' = w.log
    /\ UNCHANGED <<prior, readers, ntvars>>

Work == [sa |-> SliceOf(Top), ptrs |-> bins.ptrs, ok |-> TRUE, log |-> <<>>]

\* Lines 330-334.
SeedValleys ==
    /\ At({"valleys"})
    /\ Inserted(InsertValleys(Work, Top.n, stypes, TextOf(Top), 0))

\* Lines 340-352 and 470-482.
InduceDescending ==
    /\ At({"desc1", "desc2"})
    /\ Inserted(InduceDesc(Work, Top.n, stypes, TextOf(Top)))

\* Lines 358-366 and 488-496.
InduceAscending ==
    /\ At({"asc1", "asc2"})
    /\ Inserted(InduceAsc(Work, Top.n, stypes, TextOf(Top)))

\* Lines 369-381.
CollectWstrings ==
    /\ At({"collect"})
    /\ LET c == Collect(SliceOf(Top), Top.n, stypes)
       IN  /\ sa' = WithSlice(Top, c.sa)
           /\ Outcome(c.ok, [Top EXCEPT !.num_wstrs = c.num])
    /\ UNCHANGED <<input, parts, text, table, origin, stypes, bins, ret>>
    /\ UNCHANGED <<prior, log, readers, ntvars>>

\* Lines 383-400.
NameStep ==
    /\ At({"name"})
    /\ LET m == NameWstrings(SliceOf(Top), Top.n, stypes, TextOf(Top), Top.num_wstrs)
       IN  /\ sa' = WithSlice(Top, m.sa)
           /\ Outcome(m.ok, [Top EXCEPT !.name = m.name])
    /\ UNCHANGED <<input, parts, text, table, origin, stypes, bins, ret>>
    /\ UNCHANGED <<prior, log, readers, ntvars>>

\* Lines 404-410.
CompactNames ==
    /\ At({"compact"})
    /\ LET k == Compact(SliceOf(Top), Top.n, Top.num_wstrs)
       IN  /\ sa' = WithSlice(Top, k.sa)
           /\ Outcome(k.ok, Top)
    /\ UNCHANGED <<input, parts, text, table, origin, stypes, bins, ret>>
    /\ UNCHANGED <<prior, log, readers, ntvars>>

\* bins, stypes and the buffer as they are at a call of sais.
Saved == [bins |-> bins, stypes |-> stypes, sa |-> sa]

\* Mutant: the recursive call is made on the level's own text instead of
\* its names.
Recurse_Again ==
    /\ At({"branch"})
    /\ Top.name < Top.num_wstrs
    /\ stack' = Append(SetTop([Top EXCEPT !.pc = "compute2"]), Frame(Top.n, Top.toff))
    /\ UNCHANGED <<input, parts, text, table, st, origin, sa, stypes, bins, ret>>
    /\ UNCHANGED <<prior, log, readers, ntvars>>

\* Lines 414-422: name < num_wstrs, sais calls itself on the names. split_at
\* is where sa.split_at_mut cuts; r_sa[..num_wstrs] panics when r_sa is
\* shorter than num_wstrs. The caller resumes at stypes.compute (line 423).
Recurse ==
    /\ At({"branch"})
    /\ Top.name < Top.num_wstrs
    /\ LET f == Top
           split_at == f.n - f.num_wstrs
       IN  IF f.num_wstrs <= split_at
           THEN /\ stack' = Append(SetTop([f EXCEPT !.pc = "compute2",
                                                     !.saved = Saved]),
                                   Frame(f.num_wstrs, split_at))
                /\ st' = st
           ELSE /\ stack' = stack
                /\ st' = "panicked"
    /\ UNCHANGED <<input, parts, text, table, origin, sa, stypes, bins, ret>>
    /\ UNCHANGED <<prior, log, readers, ntvars>>

\* Lines 424-429: every wstring has its own name.
DirectOrder ==
    /\ At({"branch"})
    /\ Top.name >= Top.num_wstrs
    /\ LET d == DirectLoop([sa |-> SliceOf(Top), ok |-> TRUE], Top.n, Top.num_wstrs, 0)
       IN  /\ sa' = WithSlice(Top, d.sa)
           /\ Outcome(d.ok, Top)
    /\ UNCHANGED <<input, parts, text, table, origin, stypes, bins, ret>>
    /\ UNCHANGED <<prior, log, readers, ntvars>>

\* Lines 437-457.
MapNames ==
    /\ At({"mapback"})
    /\ LET p == MapBack(SliceOf(Top), Top.n, stypes, Top.num_wstrs)
       IN  /\ sa' = WithSlice(Top, p.sa)
           /\ Outcome(p.ok, Top)
    /\ UNCHANGED <<input, parts, text, table, origin, stypes, bins, ret>>
    /\ UNCHANGED <<prior, log, readers, ntvars>>

\* Lines 460-464.
SeedSorted ==
    /\ At({"seed"})
    /\ Inserted(SeedLoop(Work, Top.n, TextOf(Top), Top.num_wstrs - 1))

\* Mutant: a nested call, instead of returning, starts over.
SaisReturn_Restart ==
    /\ At({"return"})
    /\ IF Len(stack) = 1
       THEN /\ stack' = <<>>
            /\ table' = sa
            /\ st' = "ready"
       ELSE /\ stack' = SetTop([Top EXCEPT !.pc = "enter"])
            /\ UNCHANGED <<table, st>>
    /\ UNCHANGED <<input, parts, text, origin, sa, stypes, bins, ret>>
    /\ UNCHANGED <<prior, log, readers, ntvars>>

\* Mutant: the nested call works on bins and types of its own, so that the
\* caller finds its own as it left them.
SaisReturn_OwnBins ==
    /\ At({"return"})
    /\ stack' = SubSeq(stack, 1, Len(stack) - 1)
    /\ IF Len(stack) = 1
       THEN /\ table' = sa
            /\ st' = "ready"
            /\ UNCHANGED <<stypes, bins>>
       ELSE /\ bins' = stack[Len(stack) - 1].saved.bins
            /\ stypes' = stack[Len(stack) - 1].saved.stypes
            /\ UNCHANGED <<table, st>>
    /\ UNCHANGED <<input, parts, text, origin, sa, ret>>
    /\ UNCHANGED <<prior, log, readers, ntvars>>

\* sais returns: to its caller in sais, or to sais_table and from there to
\* SuffixTable::new, which stores the buffer as the table (lines 303, 28-32).
SaisReturn ==
    /\ At({"return"})
    /\ stack' = SubSeq(stack, 1, Len(stack) - 1)
    /\ IF Len(stack) = 1
       THEN /\ table' = sa
            /\ st' = "ready"
       ELSE UNCHANGED <<table, st>>
    /\ UNCHANGED <<input, parts, text, origin, sa, stypes, bins, ret>>
    /\ UNCHANGED <<prior, log, readers, ntvars>>

\* Mutant: from_parts without the assert_eq! on the lengths.
FromParts_Unchecked ==
    /\ st = "init"
    /\ Len(input) <= MaxPartsLen
    /\ \E t \in PartsTables :
          /\ parts' = t
          /\ origin' = "from_parts"
          /\ text' = input
          /\ table' = t
          /\ st' = "ready"
    /\ UNCHANGED <<input, sa, stypes, bins, stack, ret>>
    /\ UNCHANGED <<prior, log, readers, ntvars>>

\* SuffixTable::from_parts(text, table), lines 44-55.
FromParts ==
    /\ st = "init"
    /\ Len(input) <= MaxPartsLen
    /\ \E t \in PartsTables :
          /\ parts' = t
          /\ origin' = "from_parts"
          /\ IF Len(input) = Len(t)
             THEN /\ text' = input
                  /\ table' = t
                  /\ st' = "ready"
             ELSE /\ st' = "panicked"
                  /\ UNCHANGED <<text, table>>
    /\ UNCHANGED <<input, sa, stypes, bins, stack, ret>>
    /\ UNCHANGED <<prior, log, readers, ntvars>>

\* A reader calls a query once the table exists and holds what the call
\* returned until it lets go of it.
Idle == st = "ready" /\ ret = NoRet

Call(op, query, r) ==
    /\ ret' = [op |-> op, query |-> query, panic |-> r.panic, val |-> r.val]
    /\ UNCHANGED <<input, parts, text, table, st, origin, sa, stypes, bins, stack>>
    /\ UNCHANGED <<prior, log, readers, ntvars>>

Positions ==
    /\ Idle
    /\ \E q \in Queries : Call("positions", q, positions(text, table, q))

AnyPosition ==
    /\ Idle
    /\ \E q \in Queries, impl \in {"early_return", "branchless"} :
          Call("any_position", q, any_position(text, table, q, impl))

Contains ==
    /\ Idle
    /\ \E q \in Queries, impl \in {"early_return", "branchless"} :
          Call("contains", q, contains(text, table, q, impl))

LcpLens ==
    /\ Idle
    /\ Call("lcp_lens", <<>>, lcp_lens(text, table))

\* The reader lets go of the returned value.
Release ==
    /\ st = "ready"
    /\ ret # NoRet
    /\ ret' = NoRet
    /\ UNCHANGED <<input, parts, text, table, st, origin, sa, stypes, bins, stack>>
    /\ UNCHANGED <<prior, log, readers, ntvars>>

Query ==
    \/ Positions
    \/ AnyPosition
    \/ Contains
    \/ LcpLens
    \/ Release

Construct ==
    \/ New
    \/ SaisEnter
    \/ Compute
    \/ FindSizes
    \/ FindTailPointers
    \/ FindHeadPointers
    \/ SeedValleys
    \/ InduceDescending
    \/ InduceAscending
    \/ CollectWstrings
    \/ NameStep
    \/ CompactNames
    \/ Recurse
    \/ DirectOrder
    \/ MapNames
    \/ SeedSorted
    \/ SaisReturn

\* Another, independent run of SuffixTable::new on the same text, with its own
\* buffer, types and bins (lines 27-28, 296-302); the table of the run before
\* is kept to be compared with.
NewAgain ==
    /\ st = "ready"
    /\ origin = "new"
    /\ ret = NoRet
    /\ Len(prior) + 1 < MaxRuns
    /\ prior' = Append(prior, table)
    /\ st' = "building"
    /\ table' = <<>>
    /\ sa' = Fill(Len(input), 0)
    /\ stypes' = Fill(Len(input), "Ascending")
    /\ bins' = BinsNew
    /\ stack' = <<Frame(Len(input), -1)>>
    /\ log' = <<>>
    /\ UNCHANGED <<input, parts, text, origin, ret, readers, ntvars>>

\* ---------------------------------------------------- concurrent readers
\* Threads that share &SuffixTable once SuffixTable::new has returned.
Readers == {"r1", "r2"}
\* Texts they share a table of, and the arguments of their calls.
\* "nananan": the shortest text over Alphabet on which sais recurses.
nananan == <<110, 97, 110, 97, 110, 97, 110>>
ReaderTexts == SeqsUpTo(Alphabet, MaxReaderLen) \cup {banana, nananan}
ReaderQueries == SeqsUpTo(Alphabet, MaxReaderQLen) \cup {na}
ReaderIndexes == 0 .. MaxReaderLen
Impls == {"early_return", "branchless"}

\* A reader that is in no call.
NoCall == [op |-> "none", query |-> <<>>, idx |-> 0, impl |-> "none",
           done |-> FALSE, panic |-> FALSE, val |-> <<>>]
NoReaders == readers = [r \in Readers |-> NoCall]

\* The calls a reader makes: the method, and its arguments.
ReaderCalls ==
    {[NoCall EXCEPT !.op = op, !.query = q, !.impl = impl] :
        op \in {"contains", "any_position"}, q \in ReaderQueries, impl \in Impls}
    \cup {[NoCall EXCEPT !.op = "positions", !.query = q] : q \in ReaderQueries}
    \cup {[NoCall EXCEPT !.op = op] : op \in {"lcp_lens", "table", "text", "len"}}
    \cup {[NoCall EXCEPT !.op = "suffix", !.idx = i] : i \in ReaderIndexes}

\* SuffixTable::suffix(i): &text[table[i]..]
suffix(txt, tbl, i) ==
    IF i >= Len(tbl) THEN Panicked
    ELSE IF ~suffix_ok(txt, tbl[i + 1]) THEN Panicked
    ELSE Returned(SliceFrom(txt, tbl[i + 1]))

\* What the call c returns on the table tbl of the text txt.
Respond(c, txt, tbl) ==
    CASE c.op = "contains" -> contains(txt, tbl, c.query, c.impl)
      [] c.op = "any_position" -> any_position(txt, tbl, c.query, c.impl)
      [] c.op = "positions" -> positions(txt, tbl, c.query)
      [] c.op = "lcp_lens" -> lcp_lens(txt, tbl)
      [] c.op = "table" -> Returned(tbl)
      [] c.op = "text" -> Returned(txt)
      [] c.op = "len" -> Returned(len(tbl))
      [] c.op = "suffix" -> suffix(txt, tbl, c.idx)

\* Reader r enters a method of the shared table.
ReaderCall(r) ==
    /\ st = "ready"
    /\ readers[r] = NoCall
    /\ \E c \in ReaderCalls : readers' = [readers EXCEPT ![r] = c]
    /\ UNCHANGED <<input, parts, text, table, st, origin, sa, stypes, bins, stack, ret>>
    /\ UNCHANGED <<prior, log, ntvars>>

\* The inverse table that lcp_lens fills: inverse[sufstart] = rank.
inverse(tbl) ==
    [p \in 1 .. Len(tbl) |->
        LET ranks == {i \in 1 .. Len(tbl) : tbl[i] = p - 1}
        IN  IF ranks = {} THEN 0
            ELSE (CHOOSE i \in ranks : \A j \in ranks : j <= i) - 1]

\* Mutant: lcp_lens fills the inverse table in place of self.table.
ReaderReturn_InPlace(r) ==
    /\ st = "ready"
    /\ readers[r].op # "none"
    /\ ~readers[r].done
    /\ LET got == Respond(readers[r], text, table)
       IN  readers' = [readers EXCEPT ![r].done = TRUE,
                                      ![r].panic = got.panic,
                                      ![r].val = got.val]
    /\ table' = IF readers[r].op = "lcp_lens" THEN inverse(table) ELSE table
    /\ UNCHANGED <<input, parts, text, st, origin, sa, stypes, bins, stack, ret>>
    /\ UNCHANGED <<prior, log, ntvars>>

\* The method reader r is in reads text and table through &self and returns
\* (or panics); the methods take &self and write neither.
ReaderReturn(r) ==
    /\ st = "ready"
    /\ readers[r].op # "none"
    /\ ~readers[r].done
    /\ LET got == Respond(readers[r], text, table)
       IN  readers' = [readers EXCEPT ![r].done = TRUE,
                                      ![r].panic = got.panic,
                                      ![r].val = got.val]
    /\ UNCHANGED <<input, parts, text, table, st, origin, sa, stypes, bins, stack, ret>>
    /\ UNCHANGED <<prior, log, ntvars>>

\* Reader r drops what the call returned.
ReaderDrop(r) ==
    /\ st = "ready"
    /\ readers[r].done
    /\ readers' = [readers EXCEPT ![r] = NoCall]
    /\ UNCHANGED <<input, parts, text, table, st, origin, sa, stypes, bins, stack, ret>>
    /\ UNCHANGED <<prior, log, ntvars>>

Read ==
    \E r \in Readers :
        \/ ReaderCall(r)
        \/ ReaderReturn(r)
        \/ ReaderDrop(r)

\* ------------------------------------------- number_theory: factor_test
\* No call of the number_theory crate is under way.
NoFactors ==
    /\ number = 0
    /\ sieve = 0
    /\ minf = <<>>
    /\ pr = <<>>
    /\ pfactor = <<>>
    /\ ans = <<>>
    /\ ntpc = "none"

suffixvars == <<input, parts, text, table, st, origin, sa, stypes, bins, stack, ret,
                prior, log, readers>>

\* let (_, pr) = euler_vec(N)
EulerVec ==
    /\ ntpc = "euler_vec"
    /\ LET e == euler_vec(sieve)
       IN  /\ minf' = e.minf
           /\ pr' = e.pr
    /\ ntpc' = "factorize"
    /\ UNCHANGED <<number, sieve, pfactor, ans, suffixvars>>

\* factorize(n, &pr)
Factorize ==
    /\ ntpc = "factorize"
    /\ pfactor' = factorize(number, pr)
    /\ ntpc' = "gen_all_factors"
    /\ UNCHANGED <<number, sieve, minf, pr, ans, suffixvars>>

\* gen_all_factors(&pfactor)
GenAllFactors ==
    /\ ntpc = "gen_all_factors"
    /\ ans' = gen_all_factors(pfactor)
    /\ ntpc' = "done"
    /\ UNCHANGED <<number, sieve, minf, pr, pfactor, suffixvars>>

Init ==
    /\ input \in Texts
    /\ parts = <<>>
    /\ text = <<>>
    /\ table = <<>>
    /\ st = "init"
    /\ origin = "none"
    /\ sa = <<>>
    /\ stypes = <<>>
    /\ bins = BinsNew
    /\ stack = <<>>
    /\ ret = NoRet
    /\ prior = <<>>
    /\ log = <<>>
    /\ NoReaders
    /\ NoFactors

Next == Construct \/ FromParts \/ Query

Spec == Init /\ [][Next]_vars

\* SuffixTable::new run MaxRuns times on each text.
NextTwice == Construct \/ NewAgain
SpecTwice == Init /\ [][NextTwice]_vars

\* SuffixTable::new alone, run by one thread that keeps taking steps until
\* the call returns or panics. Construct has a step exactly while st is
\* "init" or "building" (every pc has its statement), so this is the weak
\* fairness of Construct with its enabling condition spelled out.
Halted == st \in {"ready", "panicked"}
Fairness == []<>Halted \/ []<><<Construct>>_vars
SpecLive == Init /\ [][Construct]_vars /\ Fairness

\* SuffixTable::new, then the readers.
InitReaders ==
    /\ input \in ReaderTexts
    /\ parts = <<>>
    /\ text = <<>>
    /\ table = <<>>
    /\ st = "init"
    /\ origin = "none"
    /\ sa = <<>>
    /\ stypes = <<>>
    /\ bins = BinsNew
    /\ stack = <<>>
    /\ ret = NoRet
    /\ prior = <<>>
    /\ log = <<>>
    /\ NoReaders
    /\ NoFactors
NextReaders == Construct \/ Read
SpecReaders == InitReaders /\ [][NextReaders]_vars

\* The body of factor_test for one n and one sieve bound.
InitFactors ==
    /\ input = <<>>
    /\ parts = <<>>
    /\ text = <<>>
    /\ table = <<>>
    /\ st = "init"
    /\ origin = "none"
    /\ sa = <<>>
    /\ stypes = <<>>
    /\ bins = BinsNew
    /\ stack = <<>>
    /\ ret = NoRet
    /\ prior = <<>>
    /\ log = <<>>
    /\ NoReaders
    /\ number \in 1 .. MaxNumber
    /\ sieve \in 0 .. MaxSieve
    /\ minf = <<>>
    /\ pr = <<>>
    /\ pfactor = <<>>
    /\ ans = <<>>
    /\ ntpc = "euler_vec"
NextFactors == EulerVec \/ Factorize \/ GenAllFactors
SpecFactors == InitFactors /\ [][NextFactors]_vars

\* ------------------------------------------------------------ properties
\* The notions the properties are stated in, defined directly (not by the
\* program's loops): suffixes, prefixes, byte-lexicographic order, the
\* common prefix and the occurrences of a query.
Suffix(p) == SubSeq(input, p + 1, Len(input))
IsPrefix(q, s) == Len(q) <= Len(s) /\ \A j \in 1 .. Len(q) : q[j] = s[j]
LexLeq(a, b) ==
    \/ IsPrefix(a, b)
    \/ \E k \in 1 .. Min(Len(a), Len(b)) :
          a[k] < b[k] /\ \A j \in 1 .. k - 1 : a[j] = b[j]
CommonPrefix(a, b) ==
    CHOOSE k \in 0 .. Min(Len(a), Len(b)) :
        /\ \A j \in 1 .. k : a[j] = b[j]
        /\ k = Min(Len(a), Len(b)) \/ a[k + 1] # b[k + 1]
Occurrences(q) == {p \in 0 .. Len(input) - 1 : IsPrefix(q, Suffix(p))}
Range(s) == {s[i] : i \in 1 .. Len(s)}

\* The table SuffixTable::new built is in place.
Built == origin = "new" /\ st = "ready"
\* A query of that table has returned.
Answered(op) == Built /\ ret.op = op

\* C1: SuffixTable::new never panics, and the table it produces for a text
\* of length n has length n and holds every start offset 0..n-1 exactly once.
C1_TablePermutation ==
    /\ origin = "new" => st # "panicked"
    /\ Built =>
          /\ text = input
          /\ Len(table) = Len(input)
          /\ \A p \in 0 .. Len(input) - 1 :
                Cardinality({i \in 1 .. Len(table) : table[i] = p}) = 1

C1_Witness ==
    /\ Built
    /\ Len(table) >= 7
    /\ table[1] # 0
    /\ \E i \in 1 .. Len(table) - 1 : table[i] > table[i + 1]

\* C2: in the table built by SuffixTable::new, the suffix at table[i] is
\* byte-lexicographically less than or equal to the suffix at table[i+1].
C2_TableSorted ==
    Built =>
       \A i \in 1 .. Len(table) - 1 :
           /\ table[i] <= Len(input)
           /\ table[i + 1] <= Len(input)
           /\ LexLeq(Suffix(table[i]), Suffix(table[i + 1]))

C2_Witness ==
    /\ Built
    /\ Len(table) >= 7
    /\ \E i \in 1 .. Len(table) - 1 :
          /\ table[i] > table[i + 1]
          /\ ~IsPrefix(Suffix(table[i]), Suffix(table[i + 1]))

\* C3: for a non-empty text lcp_lens() returns n lengths, the first 0 and the
\* i-th the length of the longest common prefix of the suffixes at ranks i-1
\* and i.
C3_LcpLens ==
    Answered("lcp_lens") /\ Len(input) >= 1 =>
       /\ ~ret.panic
       /\ Len(ret.val) = Len(input)
       /\ ret.val[1] = 0
       /\ \A i \in 2 .. Len(input) :
             ret.val[i] = CommonPrefix(Suffix(table[i - 1]), Suffix(table[i]))

C3_Witness ==
    /\ Answered("lcp_lens")
    /\ \E i \in 2 .. Len(ret.val) : ret.val[i] >= 3
    /\ \E i \in 2 .. Len(ret.val) : ret.val[i] = 0

\* C4 as claimed: for every query q, contains(q) is true iff q occurs.
C4_ContainsEveryQuery ==
    Answered("contains") =>
       /\ ~ret.panic
       /\ ret.val <=> Occurrences(ret.query) # {}

\* C4 amended: for every non-empty query q, contains(q) is true iff some
\* position p of the text has text[p..] starting with q.
C4_ContainsNonEmptyQuery ==
    Answered("contains") /\ ret.query # <<>> =>
       /\ ~ret.panic
       /\ ret.val <=> Occurrences(ret.query) # {}

C4_Witness ==
    /\ Answered("contains")
    /\ Len(ret.query) >= 2
    /\ ret.val
    /\ Len(input) >= 7

\* C5 as claimed: for every query q, positions(q) is, as a set and without
\* duplicates, the set of occurrences of q.
C5_PositionsEveryQuery ==
    Answered("positions") =>
       /\ ~ret.panic
       /\ Range(ret.val) = Occurrences(ret.query)
       /\ Cardinality(Range(ret.val)) = Len(ret.val)

\* C5 amended: the same for every non-empty query q.
C5_PositionsNonEmptyQuery ==
    Answered("positions") /\ ret.query # <<>> =>
       /\ ~ret.panic
       /\ Range(ret.val) = Occurrences(ret.query)
       /\ Cardinality(Range(ret.val)) = Len(ret.val)

C5_Witness ==
    /\ Answered("positions")
    /\ Len(ret.query) >= 2
    /\ Len(ret.val) >= 3

\* C6 as claimed: for every query q, any_position(q) returns Some(p) only
\* for an occurrence p of q, and None iff q does not occur.
C6_AnyPositionEveryQuery ==
    Answered("any_position") =>
       /\ ~ret.panic
       /\ Len(ret.val) <= 1
       /\ Range(ret.val) \subseteq Occurrences(ret.query)
       /\ ret.val = <<>> <=> Occurrences(ret.query) = {}

\* C6 amended: the same for every non-empty query q.
C6_AnyPositionNonEmptyQuery ==
    Answered("any_position") /\ ret.query # <<>> =>
       /\ ~ret.panic
       /\ Len(ret.val) <= 1
       /\ Range(ret.val) \subseteq Occurrences(ret.query)
       /\ ret.val = <<>> <=> Occurrences(ret.query) = {}

C6_Witness ==
    /\ Answered("any_position")
    /\ Len(ret.val) = 1
    /\ Cardinality(Occurrences(ret.query)) >= 3

\* What each query returns when nothing matches.
NoMatch ==
    CASE ret.op = "contains" -> ret.val = FALSE
      [] ret.op = "positions" -> ret.val = <<>>
      [] ret.op = "any_position" -> ret.val = <<>>

\* C7: an empty query or an empty text never matches and never panics:
\* positions is empty, any_position is None and contains is false.
C7_EmptyNeverMatches ==
    /\ Built
    /\ ret.op \in {"contains", "positions", "any_position"}
    /\ ret.query = <<>> \/ Len(input) = 0
    => ~ret.panic /\ NoMatch

C7_Witness ==
    /\ Answered("positions")
    /\ ret.query = <<>>
    /\ Len(input) >= 2
    /\ ret.val = <<>>

C7_WitnessEmptyText ==
    /\ Answered("any_position")
    /\ ret.query # <<>>
    /\ Len(input) = 0
    /\ ret.val = <<>>

\* C8: for "banana", SuffixTable::new yields table = [5,3,1,0,4,2];
\* lcp_lens() = [0,1,3,0,0,2]; positions("ana") is the set {1,3};
\* contains("nan") is true; contains("xyz") is false; any_position("na") is
\* Some(2) or Some(4).
C8_Banana ==
    input = banana /\ origin = "new" =>
       /\ st # "panicked"
       /\ st = "ready" =>
             /\ table = <<5, 3, 1, 0, 4, 2>>
             /\ ~ret.panic
             /\ ret.op = "lcp_lens" => ret.val = <<0, 1, 3, 0, 0, 2>>
             /\ ret.op = "positions" /\ ret.query = ana => Range(ret.val) = {1, 3}
             /\ ret.op = "contains" /\ ret.query = nan => ret.val = TRUE
             /\ ret.op = "contains" /\ ret.query = xyz => ret.val = FALSE
             /\ ret.op = "any_position" /\ ret.query = na => ret.val \in {<<2>>, <<4>>}

C8_Witness ==
    /\ input = banana
    /\ Answered("any_position")
    /\ ret.query = na
    /\ ret.val \in {<<2>>, <<4>>}

\* C9: for the empty text SuffixTable::new yields an empty table, len() = 0
\* and is_empty() = true, and every query returns false / empty / None; for a
\* single-character text the table is [0]. In neither case does sais go past
\* its base cases: no classification, no bucket computation, no induction.
C9_BaseCases ==
    origin = "new" /\ Len(input) <= 1 =>
       /\ st # "panicked"
       /\ stypes = Fill(Len(input), "Ascending")
       /\ bins = BinsNew
       /\ Running => Len(stack) = 1 /\ Top.pc \in {"enter", "return"}
       /\ Built /\ Len(input) = 0 =>
             /\ table = <<>>
             /\ len(table) = 0
             /\ is_empty(table)
             /\ ret.op \in {"contains", "positions", "any_position"} =>
                   ~ret.panic /\ NoMatch
       /\ Built /\ Len(input) = 1 => table = <<0>> /\ ~is_empty(table)

C9_Witness ==
    /\ Built
    /\ Len(input) = 1
    /\ table = <<0>>
    /\ ret.op = "contains"

\* C10: from_parts(text, table) panics iff text.len() != table.len(); when
\* the lengths agree it succeeds whatever the table holds and stores text
\* and table as given.
C10_FromParts ==
    origin = "from_parts" =>
       /\ st = "panicked" <=> Len(input) # Len(parts)
       /\ st # "panicked" =>
             /\ st = "ready"
             /\ text = input
             /\ table = parts

C10_Witness ==
    /\ origin = "from_parts"
    /\ st = "ready"
    /\ Len(table) = 2
    /\ table[1] = table[2]

RECURSIVE CeilLog2(_)
CeilLog2(n) == IF n <= 1 THEN 0 ELSE 1 + CeilLog2((n + 1) \div 2)

\* C12: for a text of length n >= 1 the nesting depth of sais invocations,
\* the top-level call counted as depth 1, never exceeds ceil(log2(n)) + 1.
C12_DepthBound ==
    origin = "new" /\ Len(input) >= 1 =>
       Len(stack) <= CeilLog2(Len(input)) + 1

C12_Witness ==
    /\ origin = "new"
    /\ Len(stack) = 3
    /\ Top.pc = "asc2"

\* The valley positions of the running level's text.
Valleys == {i \in 0 .. Top.n - 1 : is_valley(stypes[i + 1])}

\* Every nested invocation is made on the names of the valleys of its
\* caller's text, which are at most half (rounded up) of, and fewer than,
\* the caller's symbols.
Shrinks ==
    /\ \A k \in 2 .. Len(stack) :
          /\ stack[k].n = stack[k - 1].num_wstrs
          /\ 2 * stack[k].n <= stack[k - 1].n + 1
          /\ stack[k].n < stack[k - 1].n
    /\ At({"name", "compact", "branch"}) =>
          Top.num_wstrs = IF Valleys = {} THEN 1 ELSE Cardinality(Valleys)

\* C13: construction terminates: every recursive invocation of sais is made
\* on a name sequence of length (the number of valleys of the current text)
\* at most ceil(n/2) and less than n, and the top-level call returns.
C13_Terminates ==
    /\ []Shrinks
    /\ (origin = "new") ~> (st = "ready")

C13_Witness ==
    /\ Len(stack) = 3
    /\ stack[2].n = 7
    /\ stack[3].n = 3
    /\ Top.pc = "return"

\* C14: positions(q) returns a contiguous sub-slice table[start..end] of the
\* suffix table, so the offsets come in the lexicographic order of their
\* suffixes, not in text order; for "The quick brown fox was very quick."
\* positions("quick") is exactly [4, 29].
C14_PositionsSlice ==
    Answered("positions") =>
       /\ ~ret.panic
       /\ \E start \in 0 .. Len(table) : \E end \in start .. Len(table) :
             ret.val = SubSeq(table, start + 1, end)
       /\ \A i \in 1 .. Len(ret.val) - 1 :
             LexLeq(Suffix(ret.val[i]), Suffix(ret.val[i + 1]))
       /\ input = fox /\ ret.query = quick => ret.val = <<4, 29>>

C14_Witness ==
    /\ Answered("positions")
    /\ input = fox
    /\ ret.query = quick
    /\ ret.val = <<4, 29>>

\* A result that is not in text order.
C14_WitnessSuffixOrder ==
    /\ Answered("positions")
    /\ Len(ret.val) >= 3
    /\ ret.val[1] > ret.val[2]
    /\ ret.val[2] < ret.val[3]

Divisors(m) == {d \in 1 .. m : m % d = 0}
IsPrime(q) == q >= 2 /\ \A d \in 2 .. q - 1 : q % d # 0

\* C16: for n >= 1 and a prime list pr of euler_vec that holds every prime
\* p with p * p <= n, gen_all_factors(factorize(n, pr)) is exactly the
\* positive divisors of n, 1 and n included, each once.
C16_AllFactors ==
    /\ ntpc = "done"
    /\ \A q \in 2 .. number : IsPrime(q) /\ q * q <= number => q \in Range(pr)
    => /\ Range(ans) = Divisors(number)
       /\ Len(ans) = Cardinality(Divisors(number))
       /\ \A i \in 1 .. Len(ans) : number % ans[i] = 0

C16_Witness ==
    /\ ntpc = "done"
    /\ number = 36
    /\ pr = <<2, 3, 5>>
    /\ pfactor = <<<<2, 2>>, <<3, 2>>>>
    /\ Len(ans) = 9

\* With a prime list that lacks a prime p, p * p <= n, a divisor is missing.
C16_WitnessShortSieve ==
    /\ ntpc = "done"
    /\ number = 4
    /\ pr = <<>>
    /\ ans = <<1, 4>>

\* The text of the running level (bytes, or the names of its caller's
\* valleys), its suffix at i, and the strict lexicographic order.
LevelText == TextOf(Top)
LevelSuffix(i) == SubSeq(LevelText, i + 1, Len(LevelText))
LexLess(a, b) == a # b /\ LexLeq(a, b)
\* Position i of the running level's text ascends: its suffix is less than
\* the next one.
Ascends(i) == i < Top.n - 1 /\ LexLess(LevelSuffix(i), LevelSuffix(i + 1))

\* stypes holds the types SuffixTypes::compute gave to the running level's
\* text: from the compute of the level until it calls sais or returns.
Typed ==
    /\ Running
    /\ Top.n >= 2
    /\ Top.pc \notin {"enter", "compute1", "compute2"}

\* C17: after SuffixTypes::compute on a text of length n >= 1 (bytes or
\* names) the last position is Descending, and every position i < n-1 is
\* Descending iff its suffix is greater than the suffix at i+1 and Ascending
\* or Valley iff it is less; equal adjacent symbols have the same kind of
\* type.
C17_SuffixTypes ==
    Typed =>
       /\ is_desc(stypes[Top.n])
       /\ \A i \in 0 .. Top.n - 2 :
             /\ is_desc(stypes[i + 1]) <=> LexLess(LevelSuffix(i + 1), LevelSuffix(i))
             /\ is_asc(stypes[i + 1]) <=> LexLess(LevelSuffix(i), LevelSuffix(i + 1))
             /\ LevelText[i + 1] = LevelText[i + 2] =>
                   type_equal(stypes[i + 1], stypes[i + 2])

C17_Witness ==
    /\ Len(stack) = 2
    /\ Top.pc = "sizes1"
    /\ \E i \in 0 .. Top.n - 2 : LevelText[i + 1] = LevelText[i + 2]
    /\ \E i \in 0 .. Top.n - 2 : is_asc(stypes[i + 1])

\* C18: after SuffixTypes::compute position i is Valley iff i >= 1, position
\* i ascends and position i-1 is Descending; so position 0 and the last
\* position are never Valley and no two Valley positions are adjacent.
C18_Valleys ==
    Typed =>
       /\ \A i \in 0 .. Top.n - 1 :
             is_valley(stypes[i + 1]) <=>
                i >= 1 /\ Ascends(i) /\ is_desc(stypes[i])
       /\ ~is_valley(stypes[1])
       /\ ~is_valley(stypes[Top.n])
       /\ \A i \in 0 .. Top.n - 2 :
             ~(is_valley(stypes[i + 1]) /\ is_valley(stypes[i + 2]))

C18_Witness ==
    /\ Len(stack) = 2
    /\ Top.pc = "sizes1"
    /\ Cardinality(Valleys) >= 3

\* The symbols of the running level's text, and how many of its positions
\* hold a symbol below c / up to c.
Symbols == Range(LevelText)
Below(c) == Cardinality({k \in 1 .. Len(LevelText) : LevelText[k] < c})
UpTo(c) == Cardinality({k \in 1 .. Len(LevelText) : LevelText[k] <= c})

\* Where the running level is: its bins hold the sizes of its text; the
\* pointers are as find_head_pointers / find_tail_pointers left them.
Sized ==
    /\ Running
    /\ Top.n >= 2
    /\ Top.pc \notin {"enter", "compute1", "sizes1", "compute2", "sizes2"}
HeadsFresh == At({"desc1", "desc2"})
TailsFresh == At({"valleys", "asc1", "mapback", "seed", "asc2"})

\* C19: after find_sizes over a text, find_head_pointers sets ptrs[c], for
\* every symbol c of the text, to the number of text symbols below c, and
\* find_tail_pointers to the number of text symbols up to c, less 1; the
\* alphabet list is the sorted set of the distinct symbols and the pointer
\* array has length max symbol + 1.
C19_BinPointers ==
    /\ Sized =>
          /\ Range(bins.alphas) = Symbols
          /\ \A k \in 1 .. Len(bins.alphas) - 1 : bins.alphas[k] < bins.alphas[k + 1]
          /\ \A c \in Symbols : Len(bins.ptrs) >= c + 1
          /\ \E c \in Symbols : Len(bins.ptrs) = c + 1
          /\ \A c \in Symbols : size(bins, c) = UpTo(c) - Below(c)
    /\ HeadsFresh => \A c \in Symbols : bins.ptrs[c + 1] = Below(c)
    /\ TailsFresh => \A c \in Symbols : bins.ptrs[c + 1] = UpTo(c) - 1

C19_Witness ==
    /\ Len(stack) = 2
    /\ Top.pc = "desc2"
    /\ Len(bins.alphas) >= 3
    /\ bins.ptrs[bins.alphas[3] + 1] >= 3

\* C20: tail_insert(pos, c) writes pos at the tail pointer of c's bucket and
\* then decrements the pointer, except that a pointer equal to 0 stays 0;
\* head_insert(pos, c) writes pos at the head pointer and increments it. In
\* every run of sais no pointer goes below 0 and no insert panics.
C20_Inserts ==
    origin = "new" =>
       \A k \in 1 .. Len(log) :
          /\ log[k].ok
          /\ log[k].ptr >= 0
          /\ log[k].cell = log[k].pos
          /\ log[k].kind = "tail" =>
                log[k].ptr1 = IF log[k].ptr = 0 THEN 0 ELSE log[k].ptr - 1
          /\ log[k].kind = "head" => log[k].ptr1 = log[k].ptr + 1

C20_Witness ==
    /\ Len(stack) = 2
    /\ Top.pc = "collect"
    /\ Len(log) >= 3
    /\ \E k \in 1 .. Len(log) :
          log[k].kind = "tail" /\ log[k].ptr = 0 /\ log[k].ptr1 = 0
    /\ \E k \in 1 .. Len(log) :
          log[k].kind = "tail" /\ log[k].ptr > 0 /\ log[k].ptr1 = log[k].ptr - 1

\* The wstring (LMS-substring) that starts at the valley p of the running
\* level's text ends at the next valley, or at the last position when no
\* valley follows; two of them are identical when they have the same length
\* and the same symbol and type at every offset.
SpanEnd(p) ==
    IF \E q \in Valleys : q > p
    THEN CHOOSE q \in Valleys : q > p /\ \A r \in Valleys : r > p => q <= r
    ELSE Top.n - 1
Identical(p, q) ==
    /\ SpanEnd(p) - p = SpanEnd(q) - q
    /\ \A k \in 0 .. SpanEnd(p) - p :
          /\ LevelText[p + k + 1] = LevelText[q + k + 1]
          /\ stypes[p + k + 1] = stypes[q + k + 1]
\* The name the naming loop stored for the valley p.
NameOf(p) == sa[Top.num_wstrs + (p \div 2) + 1]
\* The naming loop of a level with valleys has run.
Named == At({"compact"}) /\ Valleys # {}

\* C21: the naming loop scans the valleys in the order the first induction
\* left them in sa[0..num_wstrs): the first name is 0, each name is the one
\* before or that plus 1, and two consecutive valleys get the same name iff
\* their wstrings are identical symbol for symbol and type for type; a
\* wstring that runs to the end of the text gets a name of its own.
C21_Names ==
    Named =>
       /\ {sa[i] : i \in 1 .. Top.num_wstrs} = Valleys
       /\ NameOf(sa[1]) = 0
       /\ Top.name = NameOf(sa[Top.num_wstrs]) + 1
       /\ \A i \in 1 .. Top.num_wstrs - 1 :
             /\ NameOf(sa[i + 1]) - NameOf(sa[i]) \in {0, 1}
             /\ NameOf(sa[i + 1]) = NameOf(sa[i]) <=> Identical(sa[i], sa[i + 1])
             /\ SpanEnd(sa[i]) \notin Valleys \/ SpanEnd(sa[i + 1]) \notin Valleys
                   => NameOf(sa[i + 1]) # NameOf(sa[i])

C21_Witness ==
    /\ Named
    /\ Top.num_wstrs >= 4
    /\ \E i \in 1 .. Top.num_wstrs - 1 : NameOf(sa[i + 1]) = NameOf(sa[i])
    /\ \E i \in 1 .. Top.num_wstrs - 1 : NameOf(sa[i + 1]) = NameOf(sa[i]) + 1
    /\ \E i \in 1 .. Top.num_wstrs - 1 :
          /\ LevelText[sa[i] + 1] = LevelText[sa[i + 1] + 1]
          /\ NameOf(sa[i + 1]) # NameOf(sa[i])

\* The running level, its text having valleys, is about to seed the buckets
\* for the second induction.
Reseeding == At({"seed"}) /\ Valleys # {}

\* C22: for a text with a valley, just before the second seeding of the
\* buckets sa[0..num_wstrs) holds every valley position exactly once, in
\* strictly increasing lexicographic order of the suffixes that start there,
\* whether the names were all distinct or sais called itself on them.
C22_ValleysSorted ==
    Reseeding =>
       /\ Top.num_wstrs = Cardinality(Valleys)
       /\ {sa[i] : i \in 1 .. Top.num_wstrs} = Valleys
       /\ \A i \in 1 .. Top.num_wstrs - 1 :
             LexLess(LevelSuffix(sa[i]), LevelSuffix(sa[i + 1]))

\* The branch with the recursive call ...
C22_Witness ==
    /\ Reseeding
    /\ Top.name < Top.num_wstrs
    /\ Top.num_wstrs >= 3
    /\ \E i \in 1 .. Top.num_wstrs - 1 : sa[i] > sa[i + 1]

\* ... and the branch without it.
C22_WitnessDirect ==
    /\ Reseeding
    /\ Top.name = Top.num_wstrs
    /\ Top.num_wstrs >= 3
    /\ \E i \in 1 .. Top.num_wstrs - 1 : sa[i] > sa[i + 1]

\* The nested call of the running level has just returned / the level has
\* called sais and has since recomputed its types and bucket sizes.
Returned2 == At({"compute2"})
Recomputed == At({"tail2a"}) /\ Top.saved # NotSaved
\* The names the running level handed to the nested call.
NamesOf(f) == SubSeq(sa, f.n - f.num_wstrs + 1, f.n)
Count(s, c) == Cardinality({k \in 1 .. Len(s) : s[k] = c})

\* C23 as claimed: the caller's bucket alphabet, sizes and pointers and its
\* suffix types are the same after the recursive call returns as before it
\* was made.
C23_OwnBins ==
    Returned2 => bins = Top.saved.bins /\ stypes = Top.saved.stypes

\* C23 amended: one bucket manager and one type array serve every level.
\* When the recursive call returns, the bins hold the alphabet and the sizes
\* of the name sequence (so they are not the caller's, whose sizes add up to
\* more) and the types of the names sit where the caller's were; the caller
\* has its own types, alphabet and sizes again once it has recomputed them.
C23_SharedBins ==
    /\ Returned2 =>
          /\ Range(bins.alphas) = Range(NamesOf(Top))
          /\ \A c \in 0 .. Len(bins.sizes) - 1 : size(bins, c) = Count(NamesOf(Top), c)
          /\ bins # Top.saved.bins
    /\ Recomputed =>
          /\ stypes = Top.saved.stypes
          /\ bins.alphas = Top.saved.bins.alphas
          /\ bins.sizes = Top.saved.bins.sizes

C23_Witness ==
    /\ Returned2
    /\ Len(stack) = 2
    /\ bins.alphas # Top.saved.bins.alphas
    /\ stypes # Top.saved.stypes

C23_WitnessRecomputed ==
    /\ Recomputed
    /\ Len(stack) = 2
    /\ stypes = Top.saved.stypes
    /\ Len(bins.alphas) >= 3

\* The buffer past the first k entries.
Beyond(s, k) == SubSeq(s, k + 1, Len(s))

\* C24: when sais calls itself, the slice it hands over, sa[0..num_wstrs),
\* and the names at the end of sa do not overlap (2 * num_wstrs <= n); as
\* long as the call runs nothing outside sa[0..num_wstrs) is written, and
\* when it has returned the names are as they were.
C24_DisjointViews ==
    /\ \A k \in 1 .. Len(stack) - 1 :
          /\ stack[k].pc = "compute2"
          /\ 2 * stack[k].num_wstrs <= stack[k].n
          /\ Beyond(sa, stack[k].num_wstrs) = Beyond(stack[k].saved.sa, stack[k].num_wstrs)
    /\ Returned2 =>
          /\ 2 * Top.num_wstrs <= Top.n
          /\ Beyond(sa, Top.num_wstrs) = Beyond(Top.saved.sa, Top.num_wstrs)
          /\ NamesOf(Top) = SubSeq(Top.saved.sa, Top.n - Top.num_wstrs + 1, Top.n)

C24_Witness ==
    /\ Returned2
    /\ Len(stack) = 2
    /\ Top.num_wstrs = 3
    /\ SubSeq(sa, 1, Top.num_wstrs) # SubSeq(Top.saved.sa, 1, Top.num_wstrs)
    /\ NamesOf(Top) = SubSeq(Top.saved.sa, Top.n - Top.num_wstrs + 1, Top.n)

\* The running level is in its second round: between its second find_sizes
\* and its return.
SecondRound == At({"tail2a", "mapback", "seed", "head2", "desc2", "tail2b", "asc2", "return"})
                  /\ Top.n >= 2

\* C25: within one level every find_sizes yields the counts of the symbols
\* of the level's text (0 for every other symbol) and its sorted alphabet,
\* in the first round and in the second; a level that called sais has, after
\* its second compute and find_sizes, the text, the types, the alphabet, the
\* sizes and the pointer array length it had before the call.
C25_SizesRecomputed ==
    /\ Sized =>
          /\ \A c \in 0 .. Len(bins.sizes) - 1 : size(bins, c) = Count(LevelText, c)
          /\ Range(bins.alphas) = Symbols
          /\ Len(bins.alphas) = Cardinality(Symbols)
          /\ \A k \in 1 .. Len(bins.alphas) - 1 : bins.alphas[k] < bins.alphas[k + 1]
    /\ SecondRound /\ Top.saved # NotSaved =>
          /\ LevelText = IF Top.toff < 0 THEN text
                         ELSE SubSeq(Top.saved.sa, Top.toff + 1, Top.toff + Top.n)
          /\ stypes = Top.saved.stypes
          /\ bins.alphas = Top.saved.bins.alphas
          /\ bins.sizes = Top.saved.bins.sizes
          /\ Len(bins.ptrs) = Len(Top.saved.bins.ptrs)

C25_Witness ==
    /\ SecondRound
    /\ Top.saved # NotSaved
    /\ Top.pc = "desc2"
    /\ Len(stack) = 2
    /\ bins.sizes = Top.saved.bins.sizes
    /\ Len(bins.alphas) >= 3

\* The valleys of the given text, by the order of its suffixes: a position
\* whose suffix is less than both the suffix before and the suffix after.
InputValleys ==
    {i \in 1 .. Len(input) - 2 :
        LexLess(Suffix(i), Suffix(i + 1)) /\ LexLess(Suffix(i), Suffix(i - 1))}
\* The running level has counted its wstrings.
Collected == Running /\ Top.n >= 2
                /\ Top.pc \notin {"enter", "compute1", "sizes1", "tail1a", "valleys",
                                  "head1", "desc1", "tail1b", "asc1", "collect"}

\* C26: for a text of length >= 2 without a valley sais sets num_wstrs to 1,
\* does not call itself, never indexes out of bounds, and returns the sorted
\* permutation of all suffixes; the same holds of a nested level whose names
\* have no valley.
C26_NoValley ==
    /\ origin = "new" /\ Len(input) >= 2 /\ InputValleys = {} =>
          /\ st # "panicked"
          /\ Len(stack) <= 1
          /\ Collected => Top.num_wstrs = 1 /\ (Top.pc # "name" => Top.name = 1)
          /\ Built =>
                /\ Range(table) = 0 .. Len(input) - 1
                /\ \A i \in 1 .. Len(table) - 1 :
                      LexLess(Suffix(table[i]), Suffix(table[i + 1]))
    /\ Collected /\ Valleys = {} =>
          /\ Top.num_wstrs = 1
          /\ Top.pc # "compute2"
          /\ Top.pc = "return" =>
                /\ Range(SliceOf(Top)) = 0 .. Top.n - 1
                /\ \A i \in 1 .. Top.n - 1 :
                      LexLess(LevelSuffix(sa[i]), LevelSuffix(sa[i + 1]))

C26_Witness ==
    /\ Built
    /\ InputValleys = {}
    /\ Len(input) >= 5
    /\ \E i \in 1 .. Len(input) - 1 : input[i] < input[i + 1]
    /\ \E i \in 1 .. Len(input) - 1 : input[i] > input[i + 1]
    /\ table[1] # 0

\* A nested level without a valley.
C26_WitnessNested ==
    /\ Collected
    /\ Valleys = {}
    /\ Len(stack) >= 2
    /\ Top.pc = "return"

\* The j-th valley (j = 1 ..) of the running level's text in text order.
ValleyAt(j) == CHOOSE v \in Valleys : Cardinality({u \in Valleys : u < v}) = j - 1

\* The name buffer sa[num_wstrs..n) after the naming loop: the valleys have
\* slots of their own inside it, the slots hold names, which are below the
\* number of valleys and so never the marker u32::MAX, and every other entry
\* holds the marker.
SlotsApart ==
    Named =>
       /\ \A p \in Valleys : \A q \in Valleys : p # q => p \div 2 # q \div 2
       /\ \A p \in Valleys :
             /\ Top.num_wstrs + (p \div 2) >= Top.num_wstrs
             /\ Top.num_wstrs + (p \div 2) < Top.n
             /\ NameOf(p) # U32Max
             /\ NameOf(p) < Top.num_wstrs
       /\ \A i \in Top.num_wstrs .. Top.n - 1 :
             sa[i + 1] # U32Max <=> \E p \in Valleys : i = Top.num_wstrs + (p \div 2)

\* The compaction moves the name of the j-th valley in text order to the
\* j-th of the last num_wstrs entries of sa.
Compacted ==
    Named /\ st' = "building" =>
       \A j \in 1 .. Top.num_wstrs :
          sa'[Top.n - Top.num_wstrs + j] = NameOf(ValleyAt(j))

\* C27: in the name buffer distinct valleys have distinct slots
\* num_wstrs + p/2, each inside sa[num_wstrs..n); no stored name is the
\* marker u32::MAX; after the compaction the last num_wstrs entries of sa
\* hold the names of the valleys in increasing order of their positions.
C27_NameBuffer == []SlotsApart /\ [][Compacted]_vars

C27_Witness ==
    /\ At({"branch"})
    /\ Cardinality(Valleys) >= 4
    /\ \E j \in 1 .. Top.num_wstrs - 1 : NamesOf(Top)[j] > NamesOf(Top)[j + 1]
    /\ \E j \in 1 .. Top.num_wstrs - 1 : NamesOf(Top)[j] < NamesOf(Top)[j + 1]
    /\ \E p \in Valleys : p + 2 \in Valleys
    /\ \E p \in Valleys : p + 2 \notin Valleys /\ p + 3 \in Valleys

\* The running level has just completed a pass that inserts into the
\* buckets (a seeding or an induction of either round): log is its log.
AfterPass ==
    /\ Running
    /\ Top.n >= 2
    /\ Top.pc \in {"head1", "tail1b", "collect", "head2", "tail2b", "return"}

\* C28: in every seeding and induction pass, at every level, each insert of
\* a position p with the symbol c is an insert of p's own symbol and writes
\* into a cell of c's bucket, from the number of symbols below c to the
\* number of symbols up to c, less 1; no position is inserted twice in one
\* pass.
C28_InsertsInBucket ==
    AfterPass =>
       \A k \in 1 .. Len(log) :
          /\ log[k].pos >= 0 /\ log[k].pos < Top.n
          /\ log[k].c = LevelText[log[k].pos + 1]
          /\ log[k].ptr >= Below(log[k].c)
          /\ log[k].ptr <= UpTo(log[k].c) - 1
          /\ \A j \in 1 .. Len(log) : j # k => log[j].pos # log[k].pos

C28_Witness ==
    /\ AfterPass
    /\ Len(stack) = 2
    /\ Top.pc = "tail2b"
    /\ Len(log) >= 3
    /\ \E k \in 1 .. Len(log) : \E j \in 1 .. Len(log) :
          log[k].c # log[j].c /\ log[k].ptr > 0 /\ log[j].ptr > 0

\* The other two queries, put to the table in place with the query of the
\* call that has returned.
SamePositions == positions(text, table, ret.query)
SameAnyPosition(impl) == any_position(text, table, ret.query, impl)
SameContains(impl) == contains(text, table, ret.query, impl)

\* C29: on a table built by SuffixTable::new and for every query q,
\* contains(q) is true iff any_position(q) is Some iff positions(q) is not
\* empty, and the p of any_position(q) = Some(p) is an element of
\* positions(q).
C29_QueriesAgree ==
    /\ Answered("positions") =>
          /\ ~ret.panic
          /\ \A impl \in Impls :
                /\ ~SameAnyPosition(impl).panic
                /\ ~SameContains(impl).panic
                /\ SameContains(impl).val <=> ret.val # <<>>
                /\ SameAnyPosition(impl).val # <<>> <=> ret.val # <<>>
                /\ Range(SameAnyPosition(impl).val) \subseteq Range(ret.val)
    /\ Answered("any_position") =>
          /\ ~ret.panic
          /\ ~SamePositions.panic
          /\ ret.val # <<>> <=> SamePositions.val # <<>>
          /\ Range(ret.val) \subseteq Range(SamePositions.val)
          /\ \A impl \in Impls : SameContains(impl).val <=> ret.val # <<>>
    /\ Answered("contains") =>
          /\ ~ret.panic
          /\ ret.val <=> SamePositions.val # <<>>
          /\ \A impl \in Impls : ret.val <=> SameAnyPosition(impl).val # <<>>

C29_Witness ==
    /\ Answered("any_position")
    /\ Len(ret.val) = 1
    /\ Len(SamePositions.val) >= 3
    /\ ret.val[1] # SamePositions.val[1]
    /\ SameContains("branchless").val

\* No agreement on an absent query either.
C29_WitnessAbsent ==
    /\ Answered("contains")
    /\ ret.val = FALSE
    /\ ret.query # <<>>
    /\ Len(input) >= 7
    /\ SamePositions.val = <<>>

\* What each statement of sais needs of the state it starts in, for a level
\* of length >= 2, to stay inside its arrays and its unsigned values.
\* The scans of sa (lines 343-351, 358-366, 371-377, 473-496) read entries
\* sufi that are positions of the level's text, so that text.prev(sufi), for
\* sufi > 0, and stypes.is_valley(sufi) are defined.
ScanInBounds ==
    At({"desc1", "asc1", "collect", "desc2", "asc2"}) /\ Top.n >= 2 =>
       \A i \in 1 .. Top.n : sa[i] >= 0 /\ sa[i] < Top.n
\* Every insert of the pass before returned, with a position of the text, a
\* symbol inside sizes and ptrs, and a pointer inside sa that stays unsigned.
InsertsInBounds ==
    AfterPass =>
       \A k \in 1 .. Len(log) :
          /\ log[k].ok
          /\ log[k].pos >= 0 /\ log[k].pos < Top.n
          /\ log[k].c >= 0 /\ log[k].c < Len(bins.sizes) /\ log[k].c < Len(bins.ptrs)
          /\ log[k].ptr >= 0 /\ log[k].ptr < Top.n
          /\ log[k].ptr1 >= 0
\* Lines 391-399: the collected positions and their slots in the name buffer.
NamingInBounds ==
    At({"name"}) /\ Top.n >= 2 =>
       /\ Top.num_wstrs >= 1
       /\ \A i \in 1 .. Top.num_wstrs :
             /\ sa[i] >= 0 /\ sa[i] < Top.n
             /\ Top.num_wstrs + (sa[i] \div 2) < Top.n
\* Lines 404-410: j starts at n - 1 and is decremented once for each name.
NamesHeld == Cardinality({i \in Top.num_wstrs + 1 .. Top.n : sa[i] # U32Max})
CursorInBounds ==
    At({"compact"}) /\ Top.n >= 2 => Top.n - 1 - NamesHeld >= 0
\* Lines 414-428: the split of sa, or the names read at sa[n - num_wstrs + i].
BranchInBounds ==
    At({"branch"}) /\ Top.n >= 2 =>
       /\ Top.num_wstrs >= 1 /\ Top.num_wstrs < Top.n
       /\ Top.name < Top.num_wstrs => 2 * Top.num_wstrs <= Top.n
       /\ Top.name >= Top.num_wstrs =>
             \A k \in 0 .. Top.num_wstrs - 1 :
                LET reducedi == sa[Top.n - Top.num_wstrs + k + 1]
                IN  reducedi >= 0 /\ reducedi < Top.n
\* Lines 437-453: the valleys fit behind n - num_wstrs, and every sufi read
\* from sa[0..num_wstrs) is a k < num_wstrs.
MapInBounds ==
    At({"mapback"}) /\ Top.n >= 2 =>
       /\ Cardinality(Valleys) <= Top.num_wstrs
       /\ \A i \in 1 .. Top.num_wstrs : sa[i] >= 0 /\ sa[i] < Top.num_wstrs
\* Lines 460-464: text.char_at(sufi).
SeedInBounds ==
    At({"seed"}) /\ Top.n >= 2 =>
       \A i \in 1 .. Top.num_wstrs : sa[i] >= 0 /\ sa[i] < Top.n
\* Every symbol of the level's text is inside the arrays of find_sizes.
SymbolsInBounds ==
    Sized => \A c \in Symbols : c >= 0 /\ c < Len(bins.sizes) /\ c < Len(bins.ptrs)

\* C30: for every text of length >= 2 and at every recursion level, no
\* step of sais indexes outside its arrays or underflows an unsigned value:
\* the construction never panics, text.prev(i) is called with i >= 1 only,
\* the compaction cursor j is not decremented below 0, every read
\* sa[n - num_wstrs + k] has k < num_wstrs, every value used as a position
\* is < n, and every symbol that indexes the bucket sizes or pointers is
\* inside the arrays computed by find_sizes.
C30_NoOutOfBounds ==
    /\ origin = "new" /\ Len(input) >= 2 => st # "panicked"
    /\ ScanInBounds
    /\ InsertsInBounds
    /\ NamingInBounds
    /\ CursorInBounds
    /\ BranchInBounds
    /\ MapInBounds
    /\ SeedInBounds
    /\ SymbolsInBounds

\* A nested level has run all of its passes, the last of them with inserts.
C30_Witness ==
    /\ At({"return"})
    /\ Len(stack) >= 2
    /\ Top.n >= 3
    /\ Top.num_wstrs >= 1
    /\ Len(log) >= 2
    /\ \E k \in 1 .. Len(log) : log[k].ptr = 0

\* The compaction has a name to move for every wstring of a long text.
C30_WitnessCursor ==
    /\ At({"compact"})
    /\ Top.n >= 7
    /\ NamesHeld >= 3
====
